---- MODULE Spec2Model ----
(***************************************************************************)
(* RTXTS sample application: the per-frame tile residency and streaming    *)
(* pipeline of SampleApp (src/src/main.cpp), its TileUploadHelper staging  *)
(* ring and the FeedbackManager interface it drives.                       *)
(***************************************************************************)
EXTENDS Integers, Sequences, FiniteSets, TLC

(***************************************************************************)
(* Program constants and model bounds                                      *)
(***************************************************************************)

\* deviceParams.swapChainBufferCount: GetBackBufferCount(), the number of
\* frames in flight of the staging ring and of the FeedbackManager.
FramesInFlight == 3

\* D3D12_TILED_RESOURCE_TILE_SIZE_IN_BYTES
TileSizeInBytes == 65536

\* Initial value of m_frameIndex (uint32_t m_frameIndex = -1): no slot yet.
NoSlot == -1

\* m_ui.tilesPerFrame at construction; it sizes the staging buffers
\* (m_maxTiles).  The program uses 256; the model scales it down.
DefaultTilesPerFrame == 2

\* Upper end of the "Tiles Per Frame" slider.  The program uses 100, below
\* the default of 256; the model scales it down likewise.
SliderMaxTilesPerFrame == 1

\* Most textures of a scene for which CreateTexture fails
MaxCreateFailures == 1

\* Last tick of the clock of the tile allocator
MaxTicks == 5

\* Most samples the model adds to one SimplePerf
MaxSamples == 4

\* Bits of the significand of a double in the model (53 in the program)
MantissaBits == 3

\* Most rectangles GetTileInfo returns for a regular tile.
MaxTileRects == 2

\* Longest m_requestedTiles the model lets BeginFrame build.
MaxQueue == 3

\* Most tiles one BeginFrame call returns.
MaxUpdateTiles == 2

\* GetFrameIndex() is capped at this value.
MaxFrames == 4

Min(a, b) == IF a < b THEN a ELSE b

(***************************************************************************)
(* The scene's tiled textures                                              *)
(***************************************************************************)

\* Identities of the FeedbackTexture objects of the loaded scene.
Textures == {1, 2}

\* Textures of full size: a 2048 x 2048 BC7 texture with all its mips, a
\* 1000 x 600 BC1 texture, and a 2048 x 2048 texture of 10 mips.
TilingTextures == {10, 11, 12}

\* donut::engine::TextureData of these textures.
TilingTextureData(t) ==
    CASE t = 10 -> [format |-> "BC7_UNORM_SRGB", width |-> 2048, height |-> 2048,
                    depth |-> 1, arraySize |-> 1, mipLevels |-> 12]
      [] t = 11 -> [format |-> "BC1_UNORM", width |-> 1000, height |-> 600,
                    depth |-> 1, arraySize |-> 1, mipLevels |-> 10]
      [] t = 12 -> [format |-> "BC7_UNORM_SRGB", width |-> 2048, height |-> 2048,
                    depth |-> 1, arraySize |-> 1, mipLevels |-> 10]

\* m_tileShape, as the device reports it: 256 x 256 texels for BC7 and
\* 512 x 256 for BC1; for texture 12 a device with tiles of 64 x 64 texels.
TileShapeOf(t) ==
    CASE t = 10 -> [widthInTexels |-> 256, heightInTexels |-> 256]
      [] t = 11 -> [widthInTexels |-> 512, heightInTexels |-> 256]
      [] t = 12 -> [widthInTexels |-> 64, heightInTexels |-> 64]

\* The tiles the packed mips of a texture occupy, as the device reports it.
PackedTailTiles(t) == IF t = 11 THEN 2 ELSE 1

RECURSIVE HalvedTimes(_, _)
HalvedTimes(x, mip) == IF mip = 0 THEN x ELSE HalvedTimes(x \div 2, mip - 1)

\* The size of a mip level in texels.
MipSize(x, mip) == IF HalvedTimes(x, mip) < 1 THEN 1 ELSE HalvedTimes(x, mip)

\* The tiles laid side by side that cover size texels.
RECURSIVE TilesToCover(_, _)
TilesToCover(size, tile) == IF size <= 0 THEN 0 ELSE 1 + TilesToCover(size - tile, tile)

\* A mip level is tiled on its own while it holds a whole tile.
IsStandardMip(t, mip) ==
    /\ MipSize(TilingTextureData(t).width, mip) >= TileShapeOf(t).widthInTexels
    /\ MipSize(TilingTextureData(t).height, mip) >= TileShapeOf(t).heightInTexels

\* nvrhi::SubresourceTiling of the standard mips, finest first: each starts
\* at the tile index after the tiles of the mips before it.
RECURSIVE SubresourceTilings(_, _, _)
SubresourceTilings(t, mip, start) ==
    IF mip >= TilingTextureData(t).mipLevels \/ ~IsStandardMip(t, mip) THEN <<>>
    ELSE LET w == TilesToCover(MipSize(TilingTextureData(t).width, mip),
                               TileShapeOf(t).widthInTexels)
             h == TilesToCover(MipSize(TilingTextureData(t).height, mip),
                               TileShapeOf(t).heightInTexels) IN
         <<[widthInTiles |-> w, heightInTiles |-> h,
            startTileIndexInOverallResource |-> start]>>
            \o SubresourceTilings(t, mip + 1, start + w * h)

\* device->getTextureTiling(m_reservedTexture, &m_numTiles, &m_packedMipDesc,
\* &m_tileShape, &mipLevels, tilingsInfo): the tiles of the standard mips
\* come first, the tiles of the packed mips last.
GetTextureTiling(t) ==
    LET tilings == SubresourceTilings(t, 0, 0)
        regular == IF tilings = <<>> THEN 0
                   ELSE LET l == tilings[Len(tilings)] IN
                        l.startTileIndexInOverallResource + l.widthInTiles * l.heightInTiles IN
    [numTiles |-> regular + PackedTailTiles(t),
     packedMipDesc |-> [numStandardMips |-> Len(tilings),
                        numPackedMips |-> TilingTextureData(t).mipLevels - Len(tilings),
                        numTilesForPackedMips |-> PackedTailTiles(t),
                        startTileIndexInOverallResource |-> regular],
     tileShape |-> TileShapeOf(t),
     tilingsInfo |-> tilings]

\* m_numTiles, m_packedMipDesc and m_tileShape of the full-size textures, as
\* the constructor of FeedbackTextureImpl stores them.
TextureTilings == [t \in TilingTextures |-> GetTextureTiling(t)]

\* FeedbackTextureImpl::FeedbackTextureImpl: the rtxts::TiledTextureDesc
\* handed to AddTiledTexture.
TiledTextureDesc(t) ==
    LET tiling == TextureTilings[t] IN
    [textureWidth |-> TilingTextureData(t).width,
     textureHeight |-> TilingTextureData(t).height,
     regularMipLevelsNum |-> tiling.packedMipDesc.numStandardMips,
     packedMipLevelsNum |-> tiling.packedMipDesc.numPackedMips,
     packedTilesNum |-> tiling.packedMipDesc.numTilesForPackedMips,
     tileWidth |-> tiling.tileShape.widthInTexels,
     tileHeight |-> tiling.tileShape.heightInTexels,
     tiledLevelDescs |->
        [i \in 1 .. tiling.packedMipDesc.numStandardMips |->
           [widthInTiles |-> tiling.tilingsInfo[i].widthInTiles,
            heightInTiles |-> tiling.tilingsInfo[i].heightInTiles]]]

\* m_numTiles of a texture, fixed at creation.
NumTiles(t) ==
    IF t = 1 THEN 3
    ELSE IF t \in TilingTextures THEN TextureTilings[t].numTiles
    ELSE 2

\* m_packedMipDesc.numTilesForPackedMips
NumTilesForPackedMips(t) ==
    IF t \in TilingTextures THEN TextureTilings[t].packedMipDesc.numTilesForPackedMips
    ELSE 1

\* m_packedMipDesc.numPackedMips
NumPackedMips(t) ==
    IF t \in TilingTextures THEN TextureTilings[t].packedMipDesc.numPackedMips
    ELSE 2

TileIndices(t) == 0 .. (NumTiles(t) - 1)

\* FeedbackTexture::IsTilePacked: true for the indices of the packed-mip
\* tail, which are the last tiles of the texture.
IsTilePacked(t, i) == i >= NumTiles(t) - NumTilesForPackedMips(t)

\* struct RequestedTile
RequestedTile == [texture : Textures, tileIndex : 0 .. 2]

ReqTile(t, i) == [texture |-> t, tileIndex |-> i]

IsPackedReq(r) == IsTilePacked(r.texture, r.tileIndex)

\* Sequences over S of length at most n.
SeqsUpTo(S, n) == UNION {[1 .. k -> S] : k \in 0 .. n}

IsInjective(s) == \A i, j \in 1 .. Len(s) : s[i] = s[j] => i = j

\* struct FeedbackTextureUpdate: a texture and the tile indices requested.
TextureUpdates ==
    UNION {{[texture |-> t, tileIndices |-> s] :
              s \in {x \in SeqsUpTo(TileIndices(t), MaxUpdateTiles) :
                       Len(x) > 0 /\ IsInjective(x)}} : t \in Textures}

RECURSIVE SumLen(_)
SumLen(c) == IF c = <<>> THEN 0 ELSE Len(Head(c).tileIndices) + SumLen(Tail(c))

\* struct FeedbackTextureCollection: what BeginFrame may return in one frame.
Collections ==
    {c \in SeqsUpTo(TextureUpdates, MaxUpdateTiles) :
        /\ \A i, j \in 1 .. Len(c) : c[i].texture = c[j].texture => i = j
        /\ SumLen(c) <= MaxUpdateTiles}

\* The tiles of a collection in iteration order (textures, then indices).
RECURSIVE Flatten(_)
Flatten(c) ==
    IF c = <<>> THEN <<>>
    ELSE [k \in 1 .. Len(Head(c).tileIndices) |->
            ReqTile(Head(c).texture, Head(c).tileIndices[k])] \o Flatten(Tail(c))

SelectPacked(s) == SelectSeq(s, LAMBDA r : IsPackedReq(r))
SelectRegular(s) == SelectSeq(s, LAMBDA r : ~IsPackedReq(r))

(***************************************************************************)
(* class TileUploadHelper                                                  *)
(***************************************************************************)

Slots == 0 .. (FramesInFlight - 1)

\* A ring indexed with one slot too few.
HelperSlotShortRing(fi) == fi % (FramesInFlight - 1)

\* TileUploadHelper::BeginFrame: m_frameIndex = frameIndex % m_framesInFlight
HelperSlot(fi) == fi % FramesInFlight

\* A BeginFrame that resets the counters of every slot.
HelperBeginFrameCountsAllSlots(tc, fi) == [s \in Slots |-> 0]

\* TileUploadHelper::BeginFrame: m_tileCount[m_frameIndex] = 0
HelperBeginFrameCounts(tc, fi) == [tc EXCEPT ![HelperSlot(fi)] = 0]

\* A guard that refuses the last tile the buffer has room for.
StagingFullOneEarly(count, maxTiles) == count + 1 >= maxTiles

\* A guard that lets one tile too many through.
StagingFullOffByOne(count, maxTiles) == count > maxTiles

\* The guard of TileUploadHelper::UploadTile: if (tileCount >= m_maxTiles)
\* return false.
StagingFull(count, maxTiles) == count >= maxTiles

\* An UploadTile that consumes a counter value also when it refuses.
UploadTileAlwaysCounts(tc, slot, maxTiles) ==
    IF StagingFull(tc[slot], maxTiles)
    THEN [ret |-> FALSE, tileCount |-> [tc EXCEPT ![slot] = @ + 1],
          copies |-> <<>>]
    ELSE [ret |-> TRUE,
          tileCount |-> [tc EXCEPT ![slot] = @ + 1],
          copies |-> <<[slot |-> slot,
                        bufferOffset |-> tc[slot] * TileSizeInBytes]>>]

\* An UploadTile that takes its staging offset after it counted the tile.
UploadTileOffsetAfterCount(tc, slot, maxTiles) ==
    IF StagingFull(tc[slot], maxTiles)
    THEN [ret |-> FALSE, tileCount |-> tc, copies |-> <<>>]
    ELSE [ret |-> TRUE,
          tileCount |-> [tc EXCEPT ![slot] = @ + 1],
          copies |-> <<[slot |-> slot,
                        bufferOffset |-> (tc[slot] + 1) * TileSizeInBytes]>>]

\* TileUploadHelper::UploadTile on the counter array tc, current slot and
\* capacity: the value returned, the counters afterwards, and the staging
\* writes / GPU copies issued (slot and byte offset of each).
UploadTile(tc, slot, maxTiles) ==
    IF StagingFull(tc[slot], maxTiles)
    THEN [ret |-> FALSE, tileCount |-> tc, copies |-> <<>>]
    ELSE [ret |-> TRUE,
          tileCount |-> [tc EXCEPT ![slot] = @ + 1],
          copies |-> <<[slot |-> slot,
                        bufferOffset |-> tc[slot] * TileSizeInBytes]>>]

(***************************************************************************)
(* SampleApp::ProcessFeedbackBeforeRender, pure parts                      *)
(***************************************************************************)

\* m_ui.texturesPerFrame at construction.
DefaultTexturesPerFrame == 10

\* Values of m_ui.texturesPerFrame a frame may read: the lower end of the
\* "Textures Per Frame" slider and the default.
TexturesPerFrameValues == {0, DefaultTexturesPerFrame}

Max(a, b) == IF a > b THEN a ELSE b

\* FeedbackUpdateConfig fconfig = {}
EmptyConfig == [texturesPerFrame |-> 0, maxTexturesToUpdate |-> 0]

\* A configuration that throttles also in the frame of a camera cut.
MaxTexturesToUpdateNoCut(cameraCut, texturesPerFrame) ==
    Max(texturesPerFrame, 0)

\* fconfig.maxTexturesToUpdate = std::max(m_ui.texturesPerFrame, 0), and 0
\* (unlimited) if (m_cameraCut).
MaxTexturesToUpdate(cameraCut, texturesPerFrame) ==
    IF cameraCut THEN 0 ELSE Max(texturesPerFrame, 0)

\* A configuration that names resolve slot 0 in every frame.
ConfigFrameIndexZero(bb, fi) == 0

\* The frame counter passed where the back buffer index belongs.
ConfigFrameIndexFrameCounter(bb, fi) == fi

\* fconfig.frameIndex = GetDeviceManager()->GetCurrentBackBufferIndex()
ConfigFrameIndex(bb, fi) == bb

\* A timeout clamped from the wrong side.
TileTimeoutSecondsMin(uiTileTimeout) == Min(uiTileTimeout, 0)

\* fconfig.tileTimeoutSeconds = std::max(m_ui.tileTimeout, 0.0f)
TileTimeoutSeconds(uiTileTimeout) == Max(uiTileTimeout, 0)

\* Mutant of CollectTiles: every tile, packed or not, is queued.
CollectTilesQueuesAll(tiles, queue, packed) == [queue |-> queue \o tiles, packed |-> packed]

\* A loop that decides once, by the first tile, where the tiles go.
CollectTilesRoutesByFirst(tiles, queue, packed) ==
    IF tiles = <<>> THEN [queue |-> queue, packed |-> packed]
    ELSE IF IsPackedReq(Head(tiles))
         THEN [queue |-> queue, packed |-> packed \o tiles]
         ELSE [queue |-> queue \o tiles, packed |-> packed]

\* The loop that collects the tiles BeginFrame returned: packed tiles go to
\* the frame-local requestedPackedTiles, the others to m_requestedTiles.
RECURSIVE CollectTiles(_, _, _)
CollectTiles(tiles, queue, packed) ==
    IF tiles = <<>> THEN [queue |-> queue, packed |-> packed]
    ELSE IF IsPackedReq(Head(tiles))
         THEN CollectTiles(Tail(tiles), queue, Append(packed, Head(tiles)))
         ELSE CollectTiles(Tail(tiles), Append(queue, Head(tiles)), packed)

\* Mutant of CountUpload: the tilesPerFrame setting is forgotten.
CountUploadIgnoresSetting(queueSize, numTilesMax, tpf) == Min(queueSize, numTilesMax)

\* A loop bound that is one short of the setting.
CountUploadOneShort(queueSize, numTilesMax, tpf) ==
    Min(Min(queueSize, numTilesMax), tpf - 1)

\* countUpload = min(min(queue size, NumTilesMax()), (uint32_t)tilesPerFrame)
CountUpload(queueSize, numTilesMax, tpf) ==
    Min(Min(queueSize, numTilesMax), tpf)

\* Index of the entry of tilesThisFrame for a texture, 0 when there is none.
FindTexture(ttf, t) ==
    IF \E k \in 1 .. Len(ttf) : ttf[k].texture = t
    THEN CHOOSE k \in 1 .. Len(ttf) :
            /\ ttf[k].texture = t
            /\ \A j \in 1 .. (k - 1) : ttf[j].texture # t
    ELSE 0

\* The lambda scheduleTileForUpload.
ScheduleTileForUpload(ttf, reqTile) ==
    LET k == FindTexture(ttf, reqTile.texture) IN
    IF k = 0
    THEN Append(ttf, [texture |-> reqTile.texture,
                      tileIndices |-> <<reqTile.tileIndex>>])
    ELSE [ttf EXCEPT ![k].tileIndices = Append(@, reqTile.tileIndex)]

\* for (auto& packedTile : requestedPackedTiles) scheduleTileForUpload(...)
RECURSIVE SchedulePacked(_, _)
SchedulePacked(ttf, packed) ==
    IF packed = <<>> THEN ttf
    ELSE SchedulePacked(ScheduleTileForUpload(ttf, Head(packed)), Tail(packed))

\* Mutant of ScheduleRegular: the tiles are taken from the back of the queue.
RECURSIVE ScheduleRegularFromBack(_, _, _)
ScheduleRegularFromBack(ttf, queue, n) ==
    IF n = 0 THEN [tiles |-> ttf, queue |-> queue]
    ELSE ScheduleRegularFromBack(ScheduleTileForUpload(ttf, queue[Len(queue)]),
                                 SubSeq(queue, 1, Len(queue) - 1), n - 1)

\* for (i < countUpload) { scheduleTileForUpload(front()); pop(); }
RECURSIVE ScheduleRegular(_, _, _)
ScheduleRegular(ttf, queue, n) ==
    IF n = 0 THEN [tiles |-> ttf, queue |-> queue]
    ELSE ScheduleRegular(ScheduleTileForUpload(ttf, Head(queue)), Tail(queue), n - 1)

\* The block "Figure out which tiles to map and upload this frame".
ScheduleTiles(queue, packed, numTilesMax, tpf) ==
    IF packed # <<>> \/ queue # <<>>
    THEN LET n == CountUpload(Len(queue), numTilesMax, tpf)
             r == ScheduleRegular(SchedulePacked(<<>>, packed), queue, n)
         IN [tiles |-> r.tiles, queue |-> r.queue, countUpload |-> n]
    ELSE [tiles |-> <<>>, queue |-> queue, countUpload |-> 0]

\* FeedbackTexture::GetTileInfo: the number of rectangles it returns, one
\* per packed mip for a packed tile, rects for a regular tile.
GetTileInfoCount(t, i, rects) == IF IsTilePacked(t, i) THEN NumPackedMips(t) ELSE rects

\* The upload loops, flattened: one entry per rectangle GetTileInfo returned,
\* in the order textures, tile indices, rectangles.
RECURSIVE UploadWork(_, _)
UploadWork(tiles, rects) ==
    IF tiles = <<>> THEN <<>>
    ELSE [k \in 1 .. GetTileInfoCount(Head(tiles).texture, Head(tiles).tileIndex, rects)
            |-> Head(tiles)] \o UploadWork(Tail(tiles), rects)

\* The body of the rectangle loop of the upload phase: writeTexture for a
\* packed tile, UploadTile for a regular one.
RECURSIVE UploadLoop(_, _, _, _, _)
UploadLoop(work, tc, slot, maxTiles, calls) ==
    IF work = <<>> THEN [tileCount |-> tc, calls |-> calls]
    ELSE LET w == Head(work) IN
         IF IsPackedReq(w)
         THEN UploadLoop(Tail(work), tc, slot, maxTiles,
                         Append(calls, [tile |-> w, path |-> "writeTexture",
                                        ret |-> TRUE, copies |-> <<>>]))
         ELSE LET u == UploadTile(tc, slot, maxTiles) IN
              UploadLoop(Tail(work), u.tileCount, slot, maxTiles,
                         Append(calls, [tile |-> w, path |-> "UploadTile",
                                        ret |-> u.ret, copies |-> u.copies]))

(***************************************************************************)
(* Scenes: the texture cache, materials, FeedbackTextureMaps               *)
(***************************************************************************)

\* The scenes the application can load; no scene is 0.
Scenes == {1, 2}
NoScene == 0

\* A scene of full-size textures, without materials.
TilingScene == 3

\* The scene loaded at start-up.
DefaultScene == 1

\* A null std::shared_ptr<LoadedTexture>.
NoTexture == 0

BlockCompressedFormats == {"BC1_UNORM", "BC7_UNORM_SRGB"}

\* donut::engine::TextureData of the textures in the scene files.
TextureData(t) ==
    CASE t = 1 -> [format |-> "BC7_UNORM_SRGB", width |-> 8, height |-> 8,
                   depth |-> 1, arraySize |-> 1, mipLevels |-> 4]
      [] t = 2 -> [format |-> "BC1_UNORM", width |-> 4, height |-> 8,
                   depth |-> 1, arraySize |-> 1, mipLevels |-> 4]
      [] t = 3 -> [format |-> "RGBA8_UNORM", width |-> 16, height |-> 16,
                   depth |-> 1, arraySize |-> 1, mipLevels |-> 1]
      [] t = 4 -> [format |-> "BC7_UNORM_SRGB", width |-> 8, height |-> 8,
                   depth |-> 1, arraySize |-> 1, mipLevels |-> 3]
      [] t = 5 -> [format |-> "BC7_UNORM_SRGB", width |-> 8, height |-> 16,
                   depth |-> 1, arraySize |-> 1, mipLevels |-> 3]
      [] t = 6 -> [format |-> "BC7_UNORM_SRGB", width |-> 8, height |-> 8,
                   depth |-> 1, arraySize |-> 1, mipLevels |-> 4]
      [] t = 7 -> [format |-> "BC1_UNORM", width |-> 6, height |-> 8,
                   depth |-> 1, arraySize |-> 1, mipLevels |-> 3]
      [] t = 8 -> [format |-> "BC7_UNORM_SRGB", width |-> 16, height |-> 16,
                   depth |-> 1, arraySize |-> 6, mipLevels |-> 1]
      [] t = 9 -> [format |-> "BC1_UNORM", width |-> 8, height |-> 8,
                   depth |-> 4, arraySize |-> 1, mipLevels |-> 2]
      [] t \in TilingTextures -> TilingTextureData(t)

\* The texture cache after the scene was loaded.
SceneTextures(scene) ==
    IF scene = 1 THEN {1, 2, 3}
    ELSE IF scene = 2 THEN {4, 5, 6, 7, 8, 9}
    ELSE IF scene = TilingScene THEN TilingTextures
    ELSE {}

\* The texture slots of donut::engine::Material, in the order in which
\* EnsureTextureSets adds them to a texture set.
MaterialSlots ==
    <<"baseOrDiffuseTexture", "metalRoughOrSpecularTexture", "normalTexture",
      "emissiveTexture", "occlusionTexture", "transmissionTexture",
      "opacityTexture">>

NoTextures == [k \in {MaterialSlots[i] : i \in 1 .. Len(MaterialSlots)} |-> NoTexture]

\* The materials in the scene files.
Material(m) ==
    CASE m = 1 -> [NoTextures EXCEPT !.baseOrDiffuseTexture = 1, !.normalTexture = 2]
      [] m = 2 -> [NoTextures EXCEPT !.baseOrDiffuseTexture = 2,
                                     !.metalRoughOrSpecularTexture = 1]
      [] m = 3 -> [NoTextures EXCEPT !.baseOrDiffuseTexture = 3, !.normalTexture = 1]
      [] m = 4 -> [NoTextures EXCEPT !.baseOrDiffuseTexture = 4,
                                     !.metalRoughOrSpecularTexture = 5]
      [] m = 5 -> [NoTextures EXCEPT !.baseOrDiffuseTexture = 4, !.normalTexture = 6]
      [] m = 6 -> [NoTextures EXCEPT !.baseOrDiffuseTexture = 4, !.normalTexture = 7,
                                     !.emissiveTexture = 8]
      [] m = 7 -> [NoTextures EXCEPT !.baseOrDiffuseTexture = 7, !.occlusionTexture = 4]
      [] m = 8 -> [NoTextures EXCEPT !.normalTexture = 4]

\* GetScene()->GetSceneGraph()->GetMaterials()
SceneMaterials(scene) ==
    IF scene = 1 THEN {1, 2, 3} ELSE IF scene = 2 THEN {4, 5, 6, 7, 8} ELSE {}

IsBlockCompressed(format) == format \in BlockCompressedFormats

\* (x + 3) & ~3
RoundUpToBlock(x) == ((x + 3) \div 4) * 4

\* EnsureFeedbackTextures: the nvrhi::TextureDesc built for a cache entry.
TextureDesc(t) ==
    LET d == TextureData(t) IN
    [d EXCEPT !.width = IF IsBlockCompressed(d.format) THEN RoundUpToBlock(@) ELSE @,
              !.height = IF IsBlockCompressed(d.format) THEN RoundUpToBlock(@) ELSE @]

\* A tiled texture is made of every block-compressed texture, cube maps and
\* volumes included.
UseTiledTextureAnyShape(t) == IsBlockCompressed(TextureDesc(t).format)

\* EnsureFeedbackTextures: useTiledTexture
UseTiledTexture(t) ==
    /\ IsBlockCompressed(TextureDesc(t).format)
    /\ TextureDesc(t).depth = 1
    /\ TextureDesc(t).arraySize = 1

\* A std::unordered_map without entries.
EmptyMap == [k \in {} |-> 0]

EmptyMaps ==
    [m_feedbackTexturesByName |-> EmptyMap,
     m_feedbackTexturesByFeedback |-> EmptyMap,
     m_feedbackTexturesBySource |-> EmptyMap,
     m_feedbackTextureSetsByMaterial |-> EmptyMap,
     m_materialConstantsFeedback |-> EmptyMap]

\* FeedbackTextureWrapper of the feedback texture made for cache entry t.
Wrapper(t) == [m_feedbackTexture |-> t, m_sourceTexture |-> t]

\* FeedbackManager::CreateTexture(desc, &feedbackTexture): the feedback
\* texture left in feedbackTexture, which stays null when the call fails.
\* failures is the set of cache entries for which it fails.
CreateTexture(t, failures) == IF t \in failures THEN NoTexture ELSE t

\* EnsureFeedbackTextures: the cache entries for which a wrapper is entered
\* in the three lookups, whatever CreateTexture returned.
EnterWrappers(scene, failures) ==
    {t \in SceneTextures(scene) : UseTiledTexture(t)}

\* EnsureFeedbackTextures without the entry by feedback texture.
RebuildFeedbackTexturesNoByFeedback(maps, scene, failures) ==
    LET tiled == [t \in EnterWrappers(scene, failures) |->
                    [Wrapper(t) EXCEPT !.m_feedbackTexture = CreateTexture(t, failures)]] IN
    [maps EXCEPT !.m_feedbackTexturesByFeedback = EmptyMap,
                 !.m_feedbackTexturesByName = tiled,
                 !.m_feedbackTexturesBySource = tiled,
                 !.m_materialConstantsFeedback = EmptyMap]

\* EnsureFeedbackTextures after its early return: the maps it leaves.  It
\* clears four maps, not the texture sets, and enters every tiled texture:
\* by name and by source texture under its own key, by feedback texture
\* under the key CreateTexture left, so that the entries of the textures
\* for which it failed share the null key and the last one stays.
RebuildFeedbackTextures(maps, scene, failures) ==
    LET entered == EnterWrappers(scene, failures)
        wrapper(t) == [Wrapper(t) EXCEPT !.m_feedbackTexture = CreateTexture(t, failures)]
        tiled == [t \in entered |-> wrapper(t)]
        last(k) == CHOOSE t \in entered :
                      /\ CreateTexture(t, failures) = k
                      /\ \A u \in entered : CreateTexture(u, failures) = k => u <= t IN
    [maps EXCEPT !.m_feedbackTexturesByFeedback =
                     [k \in {CreateTexture(t, failures) : t \in entered} |-> wrapper(last(k))],
                 !.m_feedbackTexturesByName = tiled,
                 !.m_feedbackTexturesBySource = tiled,
                 !.m_materialConstantsFeedback = EmptyMap]

\* EnsureFeedbackTextures: the cache entries that get a texture of their own.
CreatedTextures(scene) == {t \in SceneTextures(scene) : ~UseTiledTexture(t)}

\* EnsureFeedbackTextures: the (arraySlice, mipLevel) pairs of the
\* writeTexture calls made for a texture that is not tiled.
UploadedSubresources(t) ==
    {<<arraySlice, mipLevel>> :
        arraySlice \in 0 .. (TextureData(t).arraySize - 1),
        mipLevel \in 0 .. (TextureData(t).mipLevels - 1)}

\* EnsureTextureSets: addTextureToSet
AddTextureToSet(textureSet, bySource, texture) ==
    IF texture = NoTexture THEN textureSet
    ELSE IF texture \in DOMAIN bySource
         THEN Append(textureSet, bySource[texture].m_feedbackTexture)
         ELSE textureSet

\* EnsureTextureSets: the set after the seven addTextureToSet calls.
RECURSIVE AddTexturesToSet(_, _, _, _)
AddTexturesToSet(textureSet, bySource, material, k) ==
    IF k > Len(MaterialSlots) THEN textureSet
    ELSE AddTexturesToSet(AddTextureToSet(textureSet, bySource, Material(material)[MaterialSlots[k]]),
                          bySource, material, k + 1)

CandidateSet(bySource, material) == AddTexturesToSet(<<>>, bySource, material, 1)

\* FeedbackTextureSet::GetPrimaryTexture: the texture added first.
GetPrimaryTexture(textureSet) == textureSet[1]

\* GetReservedTexture()->getDesc() of a feedback texture.
ReservedDesc(feedbackTexture) == TextureDesc(feedbackTexture)

\* A check that overlooks the mip count.
FollowerExceedsSizeOnly(follower, primary) ==
    \/ follower.width > primary.width
    \/ follower.height > primary.height

\* EnsureTextureSets: width > primaryWidth || height > primaryHeight ||
\* mipLevels > primaryMipLevels
FollowerExceeds(follower, primary) ==
    \/ follower.width > primary.width
    \/ follower.height > primary.height
    \/ follower.mipLevels > primary.mipLevels

\* EnsureTextureSets: rejectTextureSet
RejectTextureSet(textureSet) ==
    \E i \in 1 .. Len(textureSet) :
       FollowerExceeds(ReservedDesc(textureSet[i]),
                       ReservedDesc(GetPrimaryTexture(textureSet)))

\* EnsureTextureSets: the materials for which a texture set is built.
HasCandidateSet(bySource, material) ==
    /\ Material(material).baseOrDiffuseTexture # NoTexture
    /\ Material(material).baseOrDiffuseTexture \in DOMAIN bySource

\* EnsureTextureSets: m_feedbackTextureSetsByMaterial after the loop.
TextureSetsByMaterial(scene, bySource, useTextureSets) ==
    [m \in {x \in SceneMaterials(scene) :
              /\ useTextureSets
              /\ HasCandidateSet(bySource, x)
              /\ ~RejectTextureSet(CandidateSet(bySource, x))}
       |-> CandidateSet(bySource, m)]

\* A constants buffer that always announces a texture set.
FeedbackConstantsAlwaysSet(setsByMaterial, material) == [useTextureSet |-> TRUE]

\* EnsureTextureSets: the FeedbackConstants written for a material.
FeedbackConstants(setsByMaterial, material) ==
    [useTextureSet |-> material \in DOMAIN setsByMaterial]

\* A rebuild that does not clear the texture sets of the run before.
RebuildTextureSetsKeepsOld(maps, scene, useTextureSets) ==
    LET new == TextureSetsByMaterial(scene, maps.m_feedbackTexturesBySource, useTextureSets)
        old == maps.m_feedbackTextureSetsByMaterial
        sets == [m \in DOMAIN old \cup DOMAIN new |->
                    IF m \in DOMAIN new THEN new[m] ELSE old[m]] IN
    [maps EXCEPT !.m_feedbackTextureSetsByMaterial = sets,
                 !.m_materialConstantsFeedback =
                     [m \in SceneMaterials(scene) |-> FeedbackConstants(sets, m)]]

\* EnsureTextureSets after its early return: the maps it leaves.
RebuildTextureSets(maps, scene, useTextureSets) ==
    LET sets == TextureSetsByMaterial(scene, maps.m_feedbackTexturesBySource, useTextureSets) IN
    [maps EXCEPT !.m_feedbackTextureSetsByMaterial = sets,
                 !.m_materialConstantsFeedback =
                     [m \in SceneMaterials(scene) |-> FeedbackConstants(sets, m)]]

(***************************************************************************)
(* class MaterialBindingCacheFeedback                                      *)
(***************************************************************************)

\* The render passes that own a MaterialBindingCacheFeedback.
Passes == {"m_gBufferPass", "m_gBufferReadDepthPass", "m_materialIDPass"}

\* The texture slots in the binding description of the passes.
BoundSlots == {MaterialSlots[i] : i \in 1 .. 6}

\* What std::unordered_map::operator[] inserts for a missing key.
NullWrapper == [m_feedbackTexture |-> NoTexture, m_sourceTexture |-> NoTexture]

\* m_feedbackTexturesBySource[ptr]->m_feedbackTexture can be dereferenced.
HasWrapper(bySource, texture) ==
    /\ texture \in DOMAIN bySource
    /\ bySource[texture] # NullWrapper
    /\ bySource[texture].m_feedbackTexture # NoTexture

\* MaterialBindingCacheFeedback::GetTextureBindingSetItem.  created is the
\* set of cache entries whose texture->texture is set.
GetTextureBindingSetItem(bySource, created, texture) ==
    IF texture = NoTexture THEN <<"m_FallbackTexture", NoTexture>>
    ELSE IF texture \in created THEN <<"texture", texture>>
    ELSE IF HasWrapper(bySource, texture)
         THEN <<"GetReservedTexture", bySource[texture].m_feedbackTexture>>
         ELSE <<"null dereference", texture>>

\* MaterialBindingCacheFeedback::GetTextureFeedbackBindingSetItem
GetTextureFeedbackBindingSetItem(bySource, created, texture) ==
    IF texture = NoTexture \/ texture \in created
    THEN <<"m_FallbackSamplerFeedbackTexture", NoTexture>>
    ELSE IF HasWrapper(bySource, texture)
         THEN <<"GetSamplerFeedbackTexture", bySource[texture].m_feedbackTexture>>
         ELSE <<"null dereference", texture>>

\* MaterialBindingCacheFeedback::GetTextureMinMipBindingSetItem
GetTextureMinMipBindingSetItem(bySource, created, texture) ==
    IF texture = NoTexture \/ texture \in created
    THEN <<"m_FallbackTexture", NoTexture>>
    ELSE IF HasWrapper(bySource, texture)
         THEN <<"GetMinMipTexture", bySource[texture].m_feedbackTexture>>
         ELSE <<"null dereference", texture>>

\* A null nvrhi::BufferHandle.
NoBuffer == [useTextureSet |-> FALSE, null |-> TRUE]

\* GBufferFillPassFeedback::SetupMaterial:
\* m_feedbackMaps->m_materialConstantsFeedback[material]
MaterialConstantsFeedback(maps, material) ==
    IF material \in DOMAIN maps.m_materialConstantsFeedback
    THEN maps.m_materialConstantsFeedback[material]
    ELSE NoBuffer

\* The item bound for MaterialResourceFeedback::ConstantBufferFeedback: the
\* buffer passed to GetMaterialBindingSet, as declared in
\* MaterialBindingCacheFeedback.h.
ConstantBufferFeedbackItem(materialConstantsFeedback) == materialConstantsFeedback

\* MaterialBindingCacheFeedback::CreateMaterialBindingSet with the binding
\* description of GBufferFillPassFeedback::CreateMaterialBindingCache.
CreateMaterialBindingSet(maps, created, material) ==
    [materialConstantsFeedback |->
        ConstantBufferFeedbackItem(MaterialConstantsFeedback(maps, material)),
     textures |->
        [slot \in BoundSlots |->
           LET texture == Material(material)[slot]
               bySource == maps.m_feedbackTexturesBySource IN
           <<GetTextureBindingSetItem(bySource, created, texture),
             GetTextureFeedbackBindingSetItem(bySource, created, texture),
             GetTextureMinMipBindingSetItem(bySource, created, texture)>>]]

\* CreateMaterialBindingSet went through a missing map entry.
DereferencesNull(bindingSet) ==
    \E slot \in BoundSlots : \E k \in 1 .. 3 :
       bindingSet.textures[slot][k][1] = "null dereference"

\* MaterialBindingCacheFeedback::GetMaterialBindingSet called by one thread:
\* the cache after the call.
GetMaterialBindingSet(bindingSets, maps, created, material) ==
    IF material \in DOMAIN bindingSets THEN bindingSets
    ELSE [m \in DOMAIN bindingSets \cup {material} |->
            IF m = material THEN CreateMaterialBindingSet(maps, created, material)
            ELSE bindingSets[m]]

\* One render pass drawing the materials of the scene, each through
\* SetupMaterial: the cache of the pass after the draw.
RECURSIVE DrawMaterials(_, _, _, _)
DrawMaterials(bindingSets, maps, created, materials) ==
    IF materials = {} THEN bindingSets
    ELSE LET m == CHOOSE x \in materials : TRUE IN
         DrawMaterials(GetMaterialBindingSet(bindingSets, maps, created, m),
                       maps, created, materials \ {m})

\* ResetBindingCache on m_gBufferPass and m_gBufferReadDepthPass, the two
\* passes SceneUnloading, EnsureFeedbackTextures and EnsureTextureSets reset.
ResetBindingCaches(bindingSets) ==
    [bindingSets EXCEPT !["m_gBufferPass"] = EmptyMap,
                        !["m_gBufferReadDepthPass"] = EmptyMap]

\* SampleApp::EnsureFeedbackTextures and SampleApp::EnsureTextureSets, called
\* one after the other at the start of RenderScene.  s holds the fields they
\* read and write.
EnsureFeedbackTextures(s) ==
    IF ~s.m_recreateFeedbackTextures THEN s
    ELSE [s EXCEPT !.m_recreateFeedbackTextures = FALSE,
                   !.m_BindingSets = ResetBindingCaches(@),
                   !.m_feedbackTextureMaps =
                       RebuildFeedbackTextures(@, s.m_scene, s.createFailures),
                   !.textureCreated = @ \cup CreatedTextures(s.m_scene)]

EnsureTextureSets(s) ==
    LET changed == s.useTextureSets # s.m_textureSetsEnabled
        s1 == [s EXCEPT !.m_textureSetsEnabled = s.useTextureSets,
                        !.m_recreateFeedbackTextureSets = @ \/ changed] IN
    IF ~s1.m_recreateFeedbackTextureSets THEN s1
    ELSE [s1 EXCEPT !.m_recreateFeedbackTextureSets = FALSE,
                    !.m_BindingSets = ResetBindingCaches(@),
                    !.m_feedbackTextureMaps =
                        RebuildTextureSets(@, s.m_scene, s.useTextureSets)]

\* SceneUnloading leaving the texture sets in their map.
UnloadedMapsKeepSets(maps) ==
    [EmptyMaps EXCEPT !.m_feedbackTextureSetsByMaterial =
                          maps.m_feedbackTextureSetsByMaterial]

\* SceneUnloading: the five clear() calls.
UnloadedMaps(maps) == EmptyMaps

\* SceneUnloading without the clearing of the request queue.
UnloadedQueueKept(queue) == queue

\* SceneUnloading: m_requestedTiles = {}
UnloadedQueue(queue) == <<>>

\* The feedback textures and texture sets something still refers to: the
\* wrappers of the three lookups and the texture sets of the materials hold
\* the references of the application, and a FeedbackTexture is destroyed,
\* and unregisters itself, when the last of them is dropped.
ReferencedTextures(maps) ==
    LET held(map) == {map[k].m_feedbackTexture : k \in DOMAIN map}
        sets == maps.m_feedbackTextureSetsByMaterial IN
    (held(maps.m_feedbackTexturesByFeedback) \cup held(maps.m_feedbackTexturesByName)
       \cup held(maps.m_feedbackTexturesBySource)
       \cup UNION {{sets[m][i] : i \in 1 .. Len(sets[m])} : m \in DOMAIN sets})
      \ {NoTexture}

\* The members of SampleApp that refer to feedback textures or own the
\* manager, between two statements of a handler.
Members(maps, queue, manager) ==
    [m_feedbackTextureMaps |-> maps, m_requestedTiles |-> queue,
     m_feedbackManager |-> manager]

\* SceneUnloading with m_feedbackManager.reset() ahead of the clear() calls.
SceneUnloadingStatementsManagerFirst(maps, queue) ==
    <<Members(maps, queue, FALSE),
      Members(UnloadedMaps(maps), queue, FALSE),
      Members(UnloadedMaps(maps), UnloadedQueue(queue), FALSE)>>

\* SceneUnloading: the members after the five clear() calls, after
\* m_requestedTiles = {} and after m_feedbackManager.reset().
SceneUnloadingStatements(maps, queue) ==
    <<Members(UnloadedMaps(maps), queue, TRUE),
      Members(UnloadedMaps(maps), UnloadedQueue(queue), TRUE),
      Members(UnloadedMaps(maps), UnloadedQueue(queue), FALSE)>>

\* The implicit destructor of SampleApp destroys the members in the reverse
\* of the order of their declaration: m_requestedTiles, then
\* m_feedbackTextureMaps, then m_feedbackManager.
DestructorStatements(maps, queue, manager) ==
    <<Members(maps, <<>>, manager),
      Members(EmptyMaps, <<>>, manager),
      Members(EmptyMaps, <<>>, FALSE)>>

\* The members when a handler returns.
AfterStatements(statements) == statements[Len(statements)]

(***************************************************************************)
(* State                                                                   *)
(***************************************************************************)

VARIABLES
    pc,                   \* position of the render thread inside RenderScene
    sceneLoaded,          \* IsSceneLoaded()
    m_feedbackManager,    \* TRUE while the FeedbackManager exists
    m_cameraCut,
    frameIndex,           \* GetFrameIndex()
    backBufferIndex,      \* GetCurrentBackBufferIndex()
    tilesPerFrame,        \* m_ui.tilesPerFrame
    m_maxTiles,           \* TileUploadHelper::m_maxTiles
    m_tileCount,          \* TileUploadHelper::m_tileCount, one counter per slot
    m_frameIndex,         \* TileUploadHelper::m_frameIndex, the current slot
    m_requestedTiles,     \* std::queue<RequestedTile>
    updatedTextures,      \* what BeginFrame returned in this frame
    fconfig,              \* the configuration built for BeginFrame, with the
                          \* m_ui.texturesPerFrame value it was built from
    requestedPackedTiles, \* packed tiles collected in this frame
    tilesThisFrame,       \* tiles scheduled for mapping and upload
    countUpload,          \* regular tiles scheduled in this frame
    mapFailed,            \* scheduled tiles the allocator failed to map
    uploadCalls,          \* writeTexture / UploadTile calls of the upload phase
    cmdLog,               \* command-list and manager calls of this frame
    resolveRing,          \* per slot: the frame whose feedback it holds
    readback,             \* the frame whose feedback BeginFrame read back
    mgrFrameIndex,        \* the manager's copy of fconfig.frameIndex
    gpuRetired,           \* frames below this index are finished on the GPU
    stagingReaders,       \* per slot: frames whose GPU copies still read it
    tileRectCount         \* rectangles GetTileInfo returns for a regular tile

\* The loaded scene and what is built from it.
VARIABLES
    m_scene,                      \* the scene that is loaded, or NoScene
    useTextureSets,               \* m_ui.useTextureSets
    m_textureSetsEnabled,
    m_recreateFeedbackTextures,
    m_recreateFeedbackTextureSets,
    m_pick,
    m_feedbackTextureMaps,        \* struct FeedbackTextureMaps
    textureCreated,               \* cache entries whose texture->texture is set
    passesCreated,                \* CreateRenderPasses has run
    m_BindingSets                 \* per pass: m_MaterialBindings->m_BindingSets

sceneVars == <<m_scene, useTextureSets, m_textureSetsEnabled,
               m_recreateFeedbackTextures, m_recreateFeedbackTextureSets,
               m_pick, m_feedbackTextureMaps, textureCreated, passesCreated,
               m_BindingSets>>

\* One FeedbackTextureImpl and the threads that hold references to it.
VARIABLES
    m_refCount,           \* std::atomic<unsigned long> m_refCount
    refsHeld,             \* references each thread holds
    releaseResult,        \* per thread: the value --m_refCount returned to a
                          \* Release that has not yet tested it, or NoResult
    destroyed,            \* how often the destructor has run
    unregistered          \* how often UnregisterTexture was called for it

refVars == <<m_refCount, refsHeld, releaseResult, destroyed, unregistered>>

\* The threads that call into the MaterialBindingCacheFeedback of one pass.
VARIABLES
    m_Mutex,              \* the thread that holds m_Mutex, or NoThread
    callPc,               \* per thread: its position in GetMaterialBindingSet
    callMaterial,         \* per thread: the material it was called with
    numCreated,           \* per material: binding sets constructed for it
                          \* since the last Clear
    returnedTo,           \* per material and thread: which of them the last
                          \* call of the thread returned, 0 before any call
    crashed               \* the process was ended by a null dereference

cacheVars == <<m_Mutex, callPc, callMaterial, numCreated, returnedTo, crashed>>

\* The tiles of one texture in the tile allocator of the manager.
VARIABLES
    tileTimeout,          \* m_ui.tileTimeout, in ticks of the clock
    now,                  \* the time of the last BeginFrame, in ticks
    tileStates            \* per tile: its state, the time it was last
                          \* requested, and the disuse and the setting it
                          \* became an eviction candidate with

allocVars == <<tileTimeout, now, tileStates>>

\* One SimplePerf object.
VARIABLES
    m_maxNumSamples,
    m_samples,            \* std::deque<double>
    m_maxValue,
    m_sum,
    addedSamples          \* the arguments of all AddSample calls, in order

perfVars == <<m_maxNumSamples, m_samples, m_maxValue, m_sum, addedSamples>>

\* The variables of the components that are modelled on their own.
componentVars == <<refVars, cacheVars, allocVars, perfVars>>

vars == <<pc, sceneLoaded, m_feedbackManager, m_cameraCut, frameIndex,
          backBufferIndex, tilesPerFrame, m_maxTiles, m_tileCount,
          m_frameIndex, m_requestedTiles, updatedTextures, fconfig,
          requestedPackedTiles, tilesThisFrame, countUpload, mapFailed,
          uploadCalls, cmdLog, resolveRing, readback, mgrFrameIndex,
          gpuRetired, stagingReaders, tileRectCount, sceneVars, componentVars>>

appVars == <<pc, sceneLoaded, m_feedbackManager, m_cameraCut, frameIndex,
             backBufferIndex, tilesPerFrame, m_requestedTiles,
             updatedTextures, fconfig, requestedPackedTiles, tilesThisFrame,
             countUpload, mapFailed, cmdLog, resolveRing, readback,
             mgrFrameIndex, gpuRetired, stagingReaders, tileRectCount>>

frameLocals == <<updatedTextures, fconfig, requestedPackedTiles, tilesThisFrame,
                 countUpload, mapFailed, uploadCalls, cmdLog, readback>>

\* Marks a resolve buffer that holds no feedback.
NoFrame == -1

\* Threads that call AddRef and Release on one FeedbackTextureImpl.
Threads == {1, 2, 3}

\* Most references to the texture the model lets exist at a time.
MaxRefs == 3

\* No Release of the thread is between its decrement and its test.
NoResult == -1

\* FeedbackTextureImpl::FeedbackTextureImpl: m_refCount(1); the creating
\* thread holds that reference.
RefInit ==
    /\ m_refCount = 1
    /\ refsHeld = [t \in Threads |-> IF t = 1 THEN 1 ELSE 0]
    /\ releaseResult = [t \in Threads |-> NoResult]
    /\ destroyed = 0
    /\ unregistered = 0

\* Threads that draw with one render pass.
CacheThreads == {1, 2}

\* m_Mutex is not held.
NoThread == 0

\* The thread is not inside GetMaterialBindingSet.
NoMaterial == 0

AllMaterials == UNION {SceneMaterials(scene) : scene \in Scenes}

\* MaterialBindingCacheFeedback after its constructor, no call in progress.
CacheInit ==
    /\ m_Mutex = NoThread
    /\ callPc = [t \in CacheThreads |-> "idle"]
    /\ callMaterial = [t \in CacheThreads |-> NoMaterial]
    /\ numCreated = [m \in AllMaterials |-> 0]
    /\ returnedTo = [m \in AllMaterials |-> [t \in CacheThreads |-> 0]]
    /\ crashed = FALSE

\* The tiles of the texture the allocator is followed for.
AllocTiles == {0, 1}

\* UIData: float tileTimeout = 1.0f, two ticks of the clock.
DefaultTileTimeout == 2

\* The values m_ui.tileTimeout may take; the slider ends at 1.0f, typed
\* input may leave its range.
TileTimeoutValues == {-1, 0, 1, DefaultTileTimeout}

\* A tile that was never requested.
FreeTile == [state |-> "Free", lastRequested |-> 0, candidateDisuse |-> 0,
             candidateSetting |-> 0]

\* The allocator of a new FeedbackManager and the user interface defaults.
AllocInit ==
    /\ tileTimeout = DefaultTileTimeout
    /\ now = 0
    /\ tileStates = [i \in AllocTiles |-> FreeTile]

\* SimplePerf(): m_maxNumSamples(100)
DefaultMaxNumSamples == 100

\* SimplePerf::SimplePerf, no sample added yet.
PerfInit ==
    /\ m_maxNumSamples = DefaultMaxNumSamples
    /\ m_samples = <<>>
    /\ m_maxValue = 0
    /\ m_sum = 0
    /\ addedSamples = <<>>

ComponentInit == RefInit /\ CacheInit /\ AllocInit /\ PerfInit

\* The members of SampleApp and UIData that concern the scene, as
\* initialised in the class definitions.
SceneFields ==
    /\ m_scene = NoScene
    /\ m_textureSetsEnabled = FALSE
    /\ m_recreateFeedbackTextures = TRUE
    /\ m_recreateFeedbackTextureSets = TRUE
    /\ m_pick = FALSE
    /\ m_feedbackTextureMaps = EmptyMaps
    /\ textureCreated = {}
    /\ passesCreated = FALSE
    /\ m_BindingSets = [p \in Passes |-> EmptyMap]

\* The scene members after construction: m_ui.useTextureSets defaults to
\* true.
SceneInit == SceneFields /\ useTextureSets = TRUE

\* The members that concern the frame loop and the staging helper.
FrameInit ==
    /\ pc = "Idle"
    /\ sceneLoaded = FALSE
    /\ m_feedbackManager = FALSE
    /\ m_cameraCut = FALSE
    /\ frameIndex = 0
    /\ backBufferIndex = 0
    /\ tilesPerFrame = DefaultTilesPerFrame
    /\ m_tileCount = [s \in Slots |-> 0]
    /\ m_frameIndex = NoSlot
    /\ m_requestedTiles = <<>>
    /\ updatedTextures = <<>>
    /\ fconfig = EmptyConfig
    /\ requestedPackedTiles = <<>>
    /\ tilesThisFrame = <<>>
    /\ countUpload = 0
    /\ mapFailed = {}
    /\ uploadCalls = <<>>
    /\ cmdLog = <<>>
    /\ resolveRing = [s \in Slots |-> NoFrame]
    /\ readback = NoFrame
    /\ mgrFrameIndex = 0
    /\ gpuRetired = 0
    /\ stagingReaders = [s \in Slots |-> {}]

\* State after construction, but for the staging capacity.  GetTileInfo
\* returns one rectangle for a regular tile.
InitFields ==
    /\ ComponentInit
    /\ SceneInit
    /\ FrameInit
    /\ tileRectCount = 1

\* State after the constructors of SampleApp and TileUploadHelper:
\* m_tileUploadHelper(device, m_ui.tilesPerFrame, GetBackBufferCount()).
Init ==
    /\ InitFields
    /\ m_maxTiles = tilesPerFrame

(***************************************************************************)
(* Scene lifecycle and user interface                                      *)
(***************************************************************************)

\* SampleApp::SceneLoaded, after the scene file and its textures were
\* loaded: a new FeedbackManager, everything to be rebuilt.
SceneLoadedStep(scenes) ==
    /\ pc = "Idle"
    /\ ~sceneLoaded
    /\ sceneLoaded' = TRUE
    /\ \E scene \in scenes : m_scene' = scene
    /\ textureCreated' = {}
    /\ m_feedbackManager' = TRUE
    /\ m_recreateFeedbackTextures' = TRUE
    /\ m_recreateFeedbackTextureSets' = TRUE
    /\ m_cameraCut' = TRUE
    /\ resolveRing' = [s \in Slots |-> NoFrame]
    /\ UNCHANGED <<componentVars, useTextureSets, m_textureSetsEnabled, m_pick,
                   m_feedbackTextureMaps, passesCreated, m_BindingSets, pc, frameIndex, backBufferIndex, tilesPerFrame, m_maxTiles,
                   m_tileCount, m_frameIndex, m_requestedTiles, frameLocals,
                   mgrFrameIndex, gpuRetired, stagingReaders, tileRectCount>>

\* The scene loaded at start-up is loaded.
SceneLoaded == SceneLoadedStep({DefaultScene})

\* SampleApp::SceneUnloading: waits for the GPU, clears the maps and the
\* request queue, releases the manager.
SceneUnloading ==
    /\ pc = "Idle"
    /\ sceneLoaded
    /\ sceneLoaded' = FALSE
    /\ gpuRetired' = frameIndex
    /\ stagingReaders' = [s \in Slots |-> {}]
    /\ m_BindingSets' = IF passesCreated THEN ResetBindingCaches(m_BindingSets)
                                          ELSE m_BindingSets
    /\ LET after == AfterStatements(SceneUnloadingStatements(m_feedbackTextureMaps,
                                                             m_requestedTiles)) IN
          /\ m_feedbackTextureMaps' = after.m_feedbackTextureMaps
          /\ m_requestedTiles' = after.m_requestedTiles
          /\ m_feedbackManager' = after.m_feedbackManager
    /\ resolveRing' = [s \in Slots |-> NoFrame]
    /\ m_scene' = NoScene
    /\ UNCHANGED <<componentVars, useTextureSets, m_textureSetsEnabled,
                   m_recreateFeedbackTextures, m_recreateFeedbackTextureSets,
                   m_pick, textureCreated, passesCreated, pc, m_cameraCut, frameIndex, backBufferIndex, tilesPerFrame,
                   m_maxTiles, m_tileCount, m_frameIndex, frameLocals,
                   mgrFrameIndex, tileRectCount>>

\* UIRenderer::buildUI: the "Tiles Per Frame" slider, between two frames.
SetTilesPerFrame ==
    /\ pc = "Idle"
    /\ \E v \in 1 .. SliderMaxTilesPerFrame :
          /\ v # tilesPerFrame
          /\ tilesPerFrame' = v
    /\ UNCHANGED <<componentVars, sceneVars, pc, sceneLoaded, m_feedbackManager, m_cameraCut, frameIndex,
                   backBufferIndex, m_maxTiles, m_tileCount, m_frameIndex,
                   m_requestedTiles, frameLocals, resolveRing, mgrFrameIndex,
                   gpuRetired, stagingReaders, tileRectCount>>

\* The GPU finishes the oldest frame submitted to it.
GpuRetire ==
    /\ gpuRetired < frameIndex
    /\ gpuRetired' = gpuRetired + 1
    /\ stagingReaders' = [s \in Slots |-> stagingReaders[s] \ {gpuRetired}]
    /\ UNCHANGED <<componentVars, sceneVars, pc, sceneLoaded, m_feedbackManager, m_cameraCut, frameIndex,
                   backBufferIndex, tilesPerFrame, m_maxTiles, m_tileCount,
                   m_frameIndex, m_requestedTiles, frameLocals, resolveRing,
                   mgrFrameIndex, tileRectCount>>

(***************************************************************************)
(* SampleApp::RenderScene, one step per phase                              *)
(***************************************************************************)

\* Command-list and manager calls of each phase, in program order.
BeginFrameEvents == <<"open", "BeginFrame", "close", "execute">>

\* An UpdateTileMappings block that is skipped when nothing was scheduled.
UpdateTileMappingsEventsIfAny(ttf) ==
    IF Len(ttf) > 0 THEN <<"open", "UpdateTileMappings", "close", "execute">>
    ELSE <<>>

\* The block "Call UpdateTileMappings always", with the collection passed.
UpdateTileMappingsEvents(ttf) == <<"open", "UpdateTileMappings", "close", "execute">>

\* The upload block runs only if (tilesThisFrame.textures.size() > 0).
UploadEvents(ttf) ==
    IF Len(ttf) > 0 THEN <<"open", "UploadTiles", "close", "execute">> ELSE <<>>

RenderEvents == <<"open", "RenderPasses", "close", "execute">>

\* EndFrame called ahead of ResolveFeedback.
AfterRenderEventsEndFrameFirst ==
    <<"open", "EndFrame", "ResolveFeedback", "close", "execute">>

\* ProcessFeedbackAfterRender records ResolveFeedback and calls EndFrame
\* before it closes and executes the command list.
AfterRenderEvents == <<"open", "ResolveFeedback", "EndFrame", "close", "execute">>

\* FeedbackTextureImpl::GetFeedbackResolveBuffer(frameIndex) with an index
\* that is no slot of m_feedbackResolveBuffers: a read past its end.
OutOfRange == -2

\* FeedbackManager::BeginFrame reads back the resolve buffers of the slot
\* config.frameIndex: the feedback resolved into it N frames ago.
ManagerReadback(ring, cfg) == IF cfg \in DOMAIN ring THEN ring[cfg] ELSE OutOfRange

\* FeedbackManager::ResolveFeedback resolves the feedback of frame f into
\* the slot of the frame index given to BeginFrame.
ManagerResolve(ring, cfg, f) == [ring EXCEPT ![cfg] = f]

\* Every CreateTexture call of EnsureFeedbackTextures succeeds.
NoCreateFailures == {{}}

\* ProcessFeedbackBeforeRender up to the first executeCommandList: the
\* EnsureFeedbackTextures and EnsureTextureSets, which wait for the GPU when
\* they rebuild, staging helper's BeginFrame, FeedbackManager::BeginFrame, which reads back
\* the resolve buffers of slot fconfig.frameIndex and returns a collection
\* of tiles, and the loop that collects them.
BeginFrameStep(collections, texturesPerFrameValues, createFailureSets) ==
    /\ pc = "Idle"
    /\ sceneLoaded
    /\ frameIndex < MaxFrames
    /\ frameIndex - gpuRetired < FramesInFlight
    /\ \E createFailures \in createFailureSets :
       \E s \in {EnsureTextureSets(EnsureFeedbackTextures(
                   [m_scene |-> m_scene,
                    createFailures |-> createFailures,
                    useTextureSets |-> useTextureSets,
                    m_textureSetsEnabled |-> m_textureSetsEnabled,
                    m_recreateFeedbackTextures |-> m_recreateFeedbackTextures,
                    m_recreateFeedbackTextureSets |-> m_recreateFeedbackTextureSets,
                    m_feedbackTextureMaps |-> m_feedbackTextureMaps,
                    textureCreated |-> textureCreated,
                    m_BindingSets |-> m_BindingSets]))} :
          /\ m_textureSetsEnabled' = s.m_textureSetsEnabled
          /\ m_recreateFeedbackTextures' = s.m_recreateFeedbackTextures
          /\ m_recreateFeedbackTextureSets' = s.m_recreateFeedbackTextureSets
          /\ m_feedbackTextureMaps' = s.m_feedbackTextureMaps
          /\ textureCreated' = s.textureCreated
          /\ m_BindingSets' = s.m_BindingSets
          /\ IF m_recreateFeedbackTextures \/ m_recreateFeedbackTextureSets
                \/ useTextureSets # m_textureSetsEnabled
             THEN /\ gpuRetired' = frameIndex
                  /\ stagingReaders' = [r \in Slots |-> {}]
             ELSE UNCHANGED <<gpuRetired, stagingReaders>>
    /\ m_frameIndex' = HelperSlot(frameIndex)
    /\ m_tileCount' = HelperBeginFrameCounts(m_tileCount, frameIndex)
    /\ m_cameraCut' = FALSE
    /\ LET cfg == ConfigFrameIndex(backBufferIndex, frameIndex) IN
          /\ mgrFrameIndex' = cfg
          /\ readback' = ManagerReadback(resolveRing, cfg)
    /\ \E t \in texturesPerFrameValues :
          fconfig' = [texturesPerFrame |-> t,
                      maxTexturesToUpdate |-> MaxTexturesToUpdate(m_cameraCut, t)]
    /\ \E c \in collections :
          \E r \in {CollectTiles(Flatten(c), m_requestedTiles, <<>>)} :
          /\ updatedTextures' = c
          /\ Len(r.queue) <= MaxQueue
          /\ m_requestedTiles' = r.queue
          /\ requestedPackedTiles' = r.packed
    /\ cmdLog' = cmdLog \o BeginFrameEvents
    /\ pc' = "Begun"
    /\ UNCHANGED <<componentVars, m_scene, useTextureSets, m_pick, passesCreated,
                   sceneLoaded, m_feedbackManager, frameIndex, backBufferIndex,
                   tilesPerFrame, m_maxTiles, tilesThisFrame, countUpload,
                   mapFailed, uploadCalls, resolveRing, tileRectCount>>

\* A frame begins with the throttle at its default and any collection of
\* tiles returned by BeginFrame.
BeginFramePhase == BeginFrameStep(Collections, {DefaultTexturesPerFrame}, NoCreateFailures)

\* "Figure out which tiles to map and upload this frame".
SchedulePhase ==
    /\ pc = "Begun"
    /\ \E r \in {ScheduleTiles(m_requestedTiles, requestedPackedTiles,
                               m_maxTiles, tilesPerFrame)} :
          /\ tilesThisFrame' = r.tiles
          /\ m_requestedTiles' = r.queue
          /\ countUpload' = r.countUpload
    /\ updatedTextures' = <<>>
    /\ fconfig' = EmptyConfig
    /\ pc' = "Scheduled"
    /\ UNCHANGED <<componentVars, sceneVars, sceneLoaded, m_feedbackManager, m_cameraCut, frameIndex,
                   backBufferIndex, tilesPerFrame, m_maxTiles, m_tileCount,
                   m_frameIndex, requestedPackedTiles, mapFailed, uploadCalls,
                   cmdLog, resolveRing, readback, mgrFrameIndex, gpuRetired,
                   stagingReaders, tileRectCount>>

\* The tiles the allocator may fail to map in one UpdateTileMappings call:
\* none, or any one of the tiles passed.
MapFailures(ttf) == {{}} \cup {{r} : r \in {Flatten(ttf)[k] : k \in 1 .. Len(Flatten(ttf))}}

\* FeedbackManager::UpdateTileMappings is called in every frame; it returns
\* nothing to the caller.
UpdateTileMappingsPhase ==
    /\ pc = "Scheduled"
    /\ mapFailed' \in MapFailures(tilesThisFrame)
    /\ cmdLog' = cmdLog \o UpdateTileMappingsEvents(tilesThisFrame)
    /\ pc' = "Mapped"
    /\ UNCHANGED <<componentVars, sceneVars, sceneLoaded, m_feedbackManager, m_cameraCut, frameIndex,
                   backBufferIndex, tilesPerFrame, m_maxTiles, m_tileCount,
                   m_frameIndex, m_requestedTiles, updatedTextures, fconfig,
                   requestedPackedTiles, tilesThisFrame, countUpload,
                   uploadCalls, resolveRing, readback, mgrFrameIndex,
                   gpuRetired, stagingReaders, tileRectCount>>

\* "Upload the tiles to the GPU and copy them into the resources".
UploadPhase ==
    /\ pc = "Mapped"
    /\ \E u \in {UploadLoop(UploadWork(Flatten(tilesThisFrame), tileRectCount),
                            m_tileCount, m_frameIndex, m_maxTiles, <<>>)} :
          /\ m_tileCount' = u.tileCount
          /\ uploadCalls' = u.calls
          /\ stagingReaders' =
                IF \E k \in 1 .. Len(u.calls) : u.calls[k].copies # <<>>
                THEN [stagingReaders EXCEPT ![m_frameIndex] = @ \cup {frameIndex}]
                ELSE stagingReaders
    /\ mapFailed' = {}
    /\ cmdLog' = cmdLog \o UploadEvents(tilesThisFrame)
    /\ pc' = "Uploaded"
    /\ UNCHANGED <<componentVars, sceneVars, sceneLoaded, m_feedbackManager, m_cameraCut, frameIndex,
                   backBufferIndex, tilesPerFrame, m_maxTiles, m_frameIndex,
                   m_requestedTiles, updatedTextures, fconfig, requestedPackedTiles,
                   tilesThisFrame, countUpload, resolveRing,
                   readback, mgrFrameIndex, gpuRetired, tileRectCount>>

\* CreateRenderPasses when new passes are needed, then the render passes of
\* RenderScene, recorded in one command list: the G-buffer pass draws the
\* materials of the scene, the material ID pass draws them if m_pick is set.
RenderPassesStep(needNewPassesValues) ==
    /\ pc = "Uploaded"
    /\ \E needNewPasses \in needNewPassesValues :
          LET fresh == IF ~passesCreated \/ needNewPasses
                       THEN [p \in Passes |-> EmptyMap]
                       ELSE m_BindingSets
              drawn(bindingSets) ==
                  DrawMaterials(bindingSets, m_feedbackTextureMaps, textureCreated,
                                SceneMaterials(m_scene)) IN
          m_BindingSets' =
             [fresh EXCEPT !["m_gBufferPass"] = drawn(@),
                           !["m_materialIDPass"] = IF m_pick THEN drawn(@) ELSE @]
    /\ passesCreated' = TRUE
    /\ cmdLog' = cmdLog \o RenderEvents
    /\ pc' = "Rendered"
    /\ UNCHANGED <<componentVars, m_scene, useTextureSets, m_textureSetsEnabled,
                   m_recreateFeedbackTextures, m_recreateFeedbackTextureSets,
                   m_pick, m_feedbackTextureMaps, textureCreated, sceneLoaded, m_feedbackManager, m_cameraCut, frameIndex,
                   backBufferIndex, tilesPerFrame, m_maxTiles, m_tileCount,
                   m_frameIndex, m_requestedTiles, updatedTextures, fconfig,
                   requestedPackedTiles, tilesThisFrame, countUpload,
                   mapFailed, uploadCalls, resolveRing, readback,
                   mgrFrameIndex, gpuRetired, stagingReaders, tileRectCount>>

\* New passes are created once, by the first frame.
RenderPasses == RenderPassesStep({FALSE})

\* SampleApp::ProcessFeedbackAfterRender: ResolveFeedback resolves this
\* frame's feedback into the manager's current resolve-buffer slot.
ProcessFeedbackAfterRender ==
    /\ pc = "Rendered"
    /\ resolveRing' = ManagerResolve(resolveRing, mgrFrameIndex, frameIndex)
    /\ cmdLog' = cmdLog \o AfterRenderEvents
    /\ pc' = "FrameDone"
    /\ UNCHANGED <<componentVars, sceneVars, sceneLoaded, m_feedbackManager, m_cameraCut, frameIndex,
                   backBufferIndex, tilesPerFrame, m_maxTiles, m_tileCount,
                   m_frameIndex, m_requestedTiles, updatedTextures, fconfig,
                   requestedPackedTiles, tilesThisFrame, countUpload,
                   mapFailed, uploadCalls, readback, mgrFrameIndex,
                   gpuRetired, stagingReaders, tileRectCount>>

\* RenderScene returns and the device manager presents: the frame index
\* advances and the swap chain moves to its next back buffer.
EndOfFrame ==
    /\ pc = "FrameDone"
    /\ frameIndex' = frameIndex + 1
    /\ backBufferIndex' = (backBufferIndex + 1) % FramesInFlight
    /\ updatedTextures' = <<>>
    /\ fconfig' = EmptyConfig
    /\ requestedPackedTiles' = <<>>
    /\ tilesThisFrame' = <<>>
    /\ countUpload' = 0
    /\ mapFailed' = {}
    /\ uploadCalls' = <<>>
    /\ cmdLog' = <<>>
    /\ readback' = NoFrame
    /\ m_pick' = FALSE
    /\ pc' = "Idle"
    /\ UNCHANGED <<componentVars, m_scene, useTextureSets, m_textureSetsEnabled,
                   m_recreateFeedbackTextures, m_recreateFeedbackTextureSets,
                   m_feedbackTextureMaps, textureCreated, passesCreated,
                   m_BindingSets, sceneLoaded, m_feedbackManager, m_cameraCut, tilesPerFrame,
                   m_maxTiles, m_tileCount, m_frameIndex, m_requestedTiles,
                   resolveRing, mgrFrameIndex, gpuRetired, stagingReaders,
                   tileRectCount>>

Next ==
    \/ SceneLoaded
    \/ SceneUnloading
    \/ SetTilesPerFrame
    \/ GpuRetire
    \/ BeginFramePhase
    \/ SchedulePhase
    \/ UpdateTileMappingsPhase
    \/ UploadPhase
    \/ RenderPasses
    \/ ProcessFeedbackAfterRender
    \/ EndOfFrame

Spec == Init /\ [][Next]_vars

(***************************************************************************)
(* TileUploadHelper on its own: any sequence of BeginFrame and UploadTile  *)
(* calls a caller may make.                                                *)
(***************************************************************************)

helperOthers == <<pc, sceneLoaded, m_feedbackManager, m_cameraCut,
                  backBufferIndex, tilesPerFrame, m_requestedTiles,
                  updatedTextures, fconfig, requestedPackedTiles, tilesThisFrame,
                  countUpload, mapFailed, cmdLog, resolveRing, readback,
                  mgrFrameIndex, gpuRetired, stagingReaders, tileRectCount>>

\* TileUploadHelper(device, maxTiles, framesInFlight)
HelperInit ==
    /\ InitFields
    /\ m_maxTiles \in 1 .. DefaultTilesPerFrame

\* TileUploadHelper::BeginFrame(frameIndex); frameIndex keeps the argument
\* the caller passed.
HelperBeginFrame ==
    /\ \E f \in 0 .. MaxFrames :
          /\ frameIndex' = f
          /\ m_frameIndex' = HelperSlot(f)
          /\ m_tileCount' = HelperBeginFrameCounts(m_tileCount, f)
    /\ uploadCalls' = <<>>
    /\ UNCHANGED <<componentVars, sceneVars, m_maxTiles, helperOthers>>

\* TileUploadHelper::UploadTile, called after BeginFrame; uploadCalls keeps
\* the calls made since BeginFrame.
HelperUploadTile ==
    /\ m_frameIndex # NoSlot
    /\ Len(uploadCalls) <= m_maxTiles
    /\ LET u == UploadTile(m_tileCount, m_frameIndex, m_maxTiles) IN
          /\ m_tileCount' = u.tileCount
          /\ uploadCalls' = Append(uploadCalls,
                                   [tile |-> ReqTile(1, 0), path |-> "UploadTile",
                                    ret |-> u.ret, copies |-> u.copies])
    /\ UNCHANGED <<componentVars, sceneVars, m_maxTiles, m_frameIndex, frameIndex, helperOthers>>

HelperNext == HelperBeginFrame \/ HelperUploadTile

HelperSpec == HelperInit /\ [][HelperNext]_vars

(***************************************************************************)
(* TileUploadHelper::UploadTile: what it copies.  Any sequence of           *)
(* BeginFrame and UploadTile calls, each UploadTile with a tile rectangle,  *)
(* a tile shape and a source mip.                                           *)
(***************************************************************************)

\* nvrhi::TileShape of the 64 KiB tile of the reserved texture: 256 x 256
\* texels of 16-byte blocks (BC7), 512 x 256 texels of 8-byte blocks (BC1).
TileShapes ==
    {[widthInTexels |-> 256, heightInTexels |-> 256],
     [widthInTexels |-> 512, heightInTexels |-> 256]}

\* The arguments of an UploadTile call: the rectangle of the tile in its
\* mip level, the tile shape, and the width in texels of the source mip,
\* which gives its row pitch.  A whole tile, the last tile of a row of a
\* 488-texel mip, the last tile of a 510-texel mip, whose width is no
\* multiple of 4, a whole tile of a BC1 texture, and a rectangle wider than
\* the tile shape.
UploadInputs ==
    {[tile |-> [xInTexels |-> 256, yInTexels |-> 0, widthInTexels |-> 256,
                heightInTexels |-> 256, mip |-> 0],
      tileShape |-> [widthInTexels |-> 256, heightInTexels |-> 256],
      mipWidthInTexels |-> 1024],
     [tile |-> [xInTexels |-> 256, yInTexels |-> 256, widthInTexels |-> 232,
                heightInTexels |-> 232, mip |-> 1],
      tileShape |-> [widthInTexels |-> 256, heightInTexels |-> 256],
      mipWidthInTexels |-> 488],
     [tile |-> [xInTexels |-> 256, yInTexels |-> 0, widthInTexels |-> 254,
                heightInTexels |-> 256, mip |-> 1],
      tileShape |-> [widthInTexels |-> 256, heightInTexels |-> 256],
      mipWidthInTexels |-> 510],
     [tile |-> [xInTexels |-> 512, yInTexels |-> 256, widthInTexels |-> 512,
                heightInTexels |-> 256, mip |-> 0],
      tileShape |-> [widthInTexels |-> 512, heightInTexels |-> 256],
      mipWidthInTexels |-> 1024],
     [tile |-> [xInTexels |-> 0, yInTexels |-> 0, widthInTexels |-> 260,
                heightInTexels |-> 256, mip |-> 0],
      tileShape |-> [widthInTexels |-> 256, heightInTexels |-> 256],
      mipWidthInTexels |-> 1024]}

\* UploadTile: bytesPerBlock
BytesPerBlock(tileShape) ==
    TileSizeInBytes \div ((tileShape.widthInTexels \div 4) * (tileShape.heightInTexels \div 4))

\* layout.rowPitch of a block-compressed mip level: its rows of blocks.
RowPitchSource(mipWidthInTexels, tileShape) ==
    ((mipWidthInTexels + 3) \div 4) * BytesPerBlock(tileShape)

\* UploadTile: tileBlocksWidth = tile.widthInTexels / 4, tileBlocksHeight =
\* tile.heightInTexels / 4
TileBlocks(texels) == texels \div 4

\* UploadTile, the loop over blockRow: the memcpy calls, one per row of
\* blocks, with the offset read in the source mip, the offset written in
\* the staging buffer and the number of bytes.
UploadTileRows(tile, tileShape, rowPitchSource, bufferOffset) ==
    LET tileBlocksWidth == TileBlocks(tile.widthInTexels)
        tileBlocksHeight == TileBlocks(tile.heightInTexels)
        bytesPerBlock == BytesPerBlock(tileShape)
        sourceBlockX == tile.xInTexels \div 4
        sourceBlockY == tile.yInTexels \div 4
        rowPitchTile == tileBlocksWidth * bytesPerBlock IN
    [k \in 1 .. tileBlocksHeight |->
        [readOffset |-> (sourceBlockY + (k - 1)) * rowPitchSource
                           + sourceBlockX * bytesPerBlock,
         writeOffset |-> bufferOffset + (k - 1) * rowPitchTile,
         size |-> rowPitchTile]]

\* UploadTile: srcLocation.PlacedFootprint of the CopyTextureRegion call.
PlacedFootprint(tile, tileShape, bufferOffset) ==
    [Offset |-> bufferOffset,
     Width |-> tile.widthInTexels,
     Height |-> tile.heightInTexels,
     RowPitch |-> TileBlocks(tile.widthInTexels) * BytesPerBlock(tileShape)]

\* TileUploadHelper::UploadTile with its arguments; uploadCalls keeps the
\* calls made since BeginFrame, with what each copied.
CopyUploadTile ==
    /\ m_frameIndex # NoSlot
    /\ Len(uploadCalls) <= m_maxTiles
    /\ \E in \in UploadInputs :
          LET u == UploadTile(m_tileCount, m_frameIndex, m_maxTiles)
              rowPitchSource == RowPitchSource(in.mipWidthInTexels, in.tileShape) IN
          /\ m_tileCount' = u.tileCount
          /\ uploadCalls' =
                Append(uploadCalls,
                       [tile |-> ReqTile(1, 0), path |-> "UploadTile",
                        ret |-> u.ret, copies |-> u.copies, in |-> in,
                        rows |-> IF u.ret
                                 THEN UploadTileRows(in.tile, in.tileShape, rowPitchSource,
                                                     u.copies[1].bufferOffset)
                                 ELSE <<>>,
                        footprint |-> IF u.ret
                                      THEN PlacedFootprint(in.tile, in.tileShape,
                                                           u.copies[1].bufferOffset)
                                      ELSE <<>>])
    /\ UNCHANGED <<componentVars, sceneVars, m_maxTiles, m_frameIndex, frameIndex, helperOthers>>

CopyNext == HelperBeginFrame \/ CopyUploadTile

CopySpec == HelperInit /\ [][CopyNext]_vars

(***************************************************************************)
(* The application with any "Textures Per Frame" setting, in scenes whose   *)
(* frames request at most one tile.                                        *)
(***************************************************************************)

QuietCollections == {<<>>, <<[texture |-> 1, tileIndices |-> <<0>>]>>}

\* A frame begins after the UI set m_ui.texturesPerFrame.
CutBeginFramePhase == BeginFrameStep(QuietCollections, TexturesPerFrameValues, NoCreateFailures)

CutNext ==
    \/ SceneLoaded
    \/ SceneUnloading
    \/ GpuRetire
    \/ CutBeginFramePhase
    \/ SchedulePhase
    \/ UpdateTileMappingsPhase
    \/ UploadPhase
    \/ RenderPasses
    \/ ProcessFeedbackAfterRender
    \/ EndOfFrame

CutSpec == Init /\ [][CutNext]_vars

(***************************************************************************)
(* The application with feedback textures whose GetTileInfo returns any     *)
(* number of rectangles for a regular tile, and the "Tiles Per Frame"       *)
(* slider                                                                   *)
(***************************************************************************)

RectInit ==
    /\ ComponentInit
    /\ SceneInit
    /\ FrameInit
    /\ tileRectCount \in 1 .. MaxTileRects
    /\ m_maxTiles = tilesPerFrame

\* What BeginFrame may return: nothing, two regular tiles of one texture, or
\* the packed tile and a regular tile of another.
RectCollections ==
    {<<>>,
     <<[texture |-> 1, tileIndices |-> <<0, 1>>]>>,
     <<[texture |-> 2, tileIndices |-> <<1, 0>>]>>}

RectBeginFramePhase == BeginFrameStep(RectCollections, {DefaultTexturesPerFrame}, NoCreateFailures)

RectNext ==
    \/ SceneLoaded
    \/ SceneUnloading
    \/ SetTilesPerFrame
    \/ GpuRetire
    \/ RectBeginFramePhase
    \/ SchedulePhase
    \/ UpdateTileMappingsPhase
    \/ UploadPhase
    \/ RenderPasses
    \/ ProcessFeedbackAfterRender
    \/ EndOfFrame

RectSpec == RectInit /\ [][RectNext]_vars

(***************************************************************************)
(* The application with two scenes, the "Use Texture Sets" checkbox, the    *)
(* material pick and new render passes on demand                            *)
(***************************************************************************)

\* What BeginFrame may return for the textures of a scene: nothing, or three
\* regular tiles.
SceneCollections(scene) ==
    IF scene = 1
    THEN {<<>>, <<[texture |-> 1, tileIndices |-> <<0, 1>>],
                  [texture |-> 2, tileIndices |-> <<0>>]>>}
    ELSE IF scene = 2
         THEN {<<>>, <<[texture |-> 4, tileIndices |-> <<0>>],
                       [texture |-> 5, tileIndices |-> <<0>>],
                       [texture |-> 6, tileIndices |-> <<0>>]>>}
         ELSE {<<>>}

\* BeginLoadingScene with any of the scene files.
SceneLoadedAny == SceneLoadedStep(Scenes)

\* UIRenderer::buildUI: the "Use Texture Sets" checkbox, between two frames.
ToggleUseTextureSets ==
    /\ pc = "Idle"
    /\ useTextureSets' = ~useTextureSets
    /\ UNCHANGED <<componentVars, m_scene, m_textureSetsEnabled,
                   m_recreateFeedbackTextures, m_recreateFeedbackTextureSets,
                   m_pick, m_feedbackTextureMaps, textureCreated, passesCreated,
                   m_BindingSets, appVars, m_maxTiles, m_tileCount,
                   m_frameIndex, uploadCalls>>

\* SampleApp::MouseButtonUpdate: a press of the second mouse button.
MouseButtonUpdate ==
    /\ pc = "Idle"
    /\ ~m_pick
    /\ m_pick' = TRUE
    /\ UNCHANGED <<componentVars, m_scene, useTextureSets, m_textureSetsEnabled,
                   m_recreateFeedbackTextures, m_recreateFeedbackTextureSets,
                   m_feedbackTextureMaps, textureCreated, passesCreated,
                   m_BindingSets, appVars, m_maxTiles, m_tileCount,
                   m_frameIndex, uploadCalls>>

SceneBeginFramePhase == BeginFrameStep(SceneCollections(m_scene), {DefaultTexturesPerFrame}, NoCreateFailures)

\* The window may be resized or the shaders reloaded before any frame.
SceneRenderPasses == RenderPassesStep(BOOLEAN)

SceneNext ==
    \/ SceneLoadedAny
    \/ SceneUnloading
    \/ ToggleUseTextureSets
    \/ MouseButtonUpdate
    \/ GpuRetire
    \/ SceneBeginFramePhase
    \/ SchedulePhase
    \/ UpdateTileMappingsPhase
    \/ UploadPhase
    \/ SceneRenderPasses
    \/ ProcessFeedbackAfterRender
    \/ EndOfFrame

SceneSpec == Init /\ [][SceneNext]_vars

(***************************************************************************)
(* The request queue over any number of frames.  The frame counters, which  *)
(* the queue does not depend on, are not followed, so that there is no      *)
(* last frame: the render loop runs one frame after the other.              *)
(***************************************************************************)

\* The end of RenderScene, the counters of the frame left as they are.
DrainEndOfFrame ==
    /\ pc = "FrameDone"
    /\ updatedTextures' = <<>>
    /\ fconfig' = EmptyConfig
    /\ requestedPackedTiles' = <<>>
    /\ tilesThisFrame' = <<>>
    /\ countUpload' = 0
    /\ mapFailed' = {}
    /\ uploadCalls' = <<>>
    /\ cmdLog' = <<>>
    /\ readback' = NoFrame
    /\ m_pick' = FALSE
    /\ stagingReaders' = [s \in Slots |-> {}]
    /\ pc' = "Idle"
    /\ UNCHANGED <<componentVars, m_scene, useTextureSets, m_textureSetsEnabled,
                   m_recreateFeedbackTextures, m_recreateFeedbackTextureSets,
                   m_feedbackTextureMaps, textureCreated, passesCreated,
                   m_BindingSets, sceneLoaded, m_feedbackManager, m_cameraCut, tilesPerFrame,
                   m_maxTiles, m_tileCount, m_frameIndex, m_requestedTiles,
                   resolveRing, mgrFrameIndex, gpuRetired, frameIndex,
                   backBufferIndex, tileRectCount>>

DrainNext ==
    \/ SceneLoaded
    \/ SceneUnloading
    \/ SetTilesPerFrame
    \/ BeginFramePhase
    \/ SchedulePhase
    \/ UpdateTileMappingsPhase
    \/ UploadPhase
    \/ RenderPasses
    \/ ProcessFeedbackAfterRender
    \/ DrainEndOfFrame

\* A phase of a frame: the steps that move the render thread on.
FramePhase ==
    \/ BeginFramePhase
    \/ SchedulePhase
    \/ UpdateTileMappingsPhase
    \/ UploadPhase
    \/ RenderPasses
    \/ ProcessFeedbackAfterRender
    \/ DrainEndOfFrame

\* DeviceManager::RunMessageLoop renders frame after frame: while a phase
\* of a frame can run, one does.
DrainFairness == WF_vars(FramePhase)

DrainSpec == Init /\ [][DrainNext]_vars /\ DrainFairness

(***************************************************************************)
(* The lifetime of the FeedbackManager and of the feedback textures it       *)
(* created: the scenes and frames of SceneSpec, and the end of the           *)
(* application.                                                             *)
(***************************************************************************)

\* WinMain: the message loop has returned and the last reference to the
\* SampleApp is dropped; its implicit destructor runs, whether or not a
\* scene is loaded.
SampleAppDestructor ==
    /\ pc = "Idle"
    /\ pc' = "Exited"
    /\ LET after == AfterStatements(DestructorStatements(m_feedbackTextureMaps,
                                        m_requestedTiles, m_feedbackManager)) IN
          /\ m_feedbackTextureMaps' = after.m_feedbackTextureMaps
          /\ m_requestedTiles' = after.m_requestedTiles
          /\ m_feedbackManager' = after.m_feedbackManager
    /\ sceneLoaded' = FALSE
    /\ m_scene' = NoScene
    /\ UNCHANGED <<componentVars, useTextureSets, m_textureSetsEnabled,
                   m_recreateFeedbackTextures, m_recreateFeedbackTextureSets,
                   m_pick, textureCreated, passesCreated, m_BindingSets,
                   m_cameraCut, frameIndex, backBufferIndex, tilesPerFrame,
                   m_maxTiles, m_tileCount, m_frameIndex, frameLocals,
                   resolveRing, mgrFrameIndex, gpuRetired, stagingReaders,
                   tileRectCount>>

LifetimeNext ==
    \/ SceneLoadedAny
    \/ SceneUnloading
    \/ ToggleUseTextureSets
    \/ MouseButtonUpdate
    \/ GpuRetire
    \/ SceneBeginFramePhase
    \/ SchedulePhase
    \/ UpdateTileMappingsPhase
    \/ UploadPhase
    \/ SceneRenderPasses
    \/ ProcessFeedbackAfterRender
    \/ EndOfFrame
    \/ SampleAppDestructor

LifetimeSpec == Init /\ [][LifetimeNext]_vars

(***************************************************************************)
(* The tile allocator behind FeedbackManager::BeginFrame: requested tiles  *)
(* are mapped, tiles out of use wait for the timeout, become eviction      *)
(* candidates in the standby queue and are freed from there                *)
(***************************************************************************)

\* BeginFrame for one tile.  A requested tile is mapped and its timer
\* starts anew; a mapped tile that is not requested becomes an eviction
\* candidate once it has been out of use for tileTimeoutSeconds; a
\* candidate stays mapped until it is freed.
ManagerUpdateTile(tile, requested, time, tileTimeoutSeconds, setting) ==
    IF requested
    THEN [state |-> "Requested", lastRequested |-> time, candidateDisuse |-> 0,
          candidateSetting |-> 0]
    ELSE IF tile.state \in {"Requested", "Idle"}
         THEN IF time - tile.lastRequested >= tileTimeoutSeconds
              THEN [tile EXCEPT !.state = "Standby",
                                !.candidateDisuse = time - tile.lastRequested,
                                !.candidateSetting = setting]
              ELSE [tile EXCEPT !.state = "Idle"]
         ELSE tile

\* The standby queue is trimmed: the tiles in freed leave it.
ManagerTrimStandby(tiles, freed) ==
    [i \in DOMAIN tiles |->
        IF i \in freed /\ tiles[i].state = "Standby"
        THEN [tiles[i] EXCEPT !.state = "Free"]
        ELSE tiles[i]]

allocOthers == <<appVars, sceneVars, refVars, cacheVars, perfVars, m_maxTiles, m_tileCount,
                 m_frameIndex, uploadCalls>>

\* The "Tile Timeout Seconds" slider.
SetTileTimeout ==
    /\ \E v \in TileTimeoutValues : v # tileTimeout /\ tileTimeout' = v
    /\ UNCHANGED <<now, tileStates, allocOthers>>

\* ProcessFeedbackBeforeRender: the configuration of the frame and
\* FeedbackManager::BeginFrame, some ticks after the frame before, with the
\* tiles the feedback of the GPU names.
AllocBeginFrame ==
    /\ \E dt \in 1 .. 2 : \E requested \in SUBSET AllocTiles : \E freed \in SUBSET AllocTiles :
          /\ now + dt <= MaxTicks
          /\ now' = now + dt
          /\ tileStates' =
                ManagerTrimStandby(
                   [i \in AllocTiles |->
                       ManagerUpdateTile(tileStates[i], i \in requested, now + dt,
                                         TileTimeoutSeconds(tileTimeout), tileTimeout)],
                   freed)
    /\ UNCHANGED <<tileTimeout, allocOthers>>

AllocNext == SetTileTimeout \/ AllocBeginFrame

AllocSpec == Init /\ [][AllocNext]_vars

(***************************************************************************)
(* class SimplePerf: the window of CPU time samples behind the statistics   *)
(* of the user interface.  Samples are doubles; the model keeps their       *)
(* arithmetic, round to nearest with ties to even, at a significand of      *)
(* MantissaBits bits, and writes a value as a multiple of the smallest      *)
(* step.                                                                    *)
(***************************************************************************)

RECURSIVE Pow2(_)
Pow2(n) == IF n = 0 THEN 1 ELSE 2 * Pow2(n - 1)

\* The spacing of the doubles around the magnitude x.
RECURSIVE Ulp(_)
Ulp(x) == IF x < Pow2(MantissaBits) THEN 1 ELSE 2 * Ulp(x \div 2)

\* The double nearest to the magnitude x, ties to the even significand.
RoundMagnitude(x) ==
    LET u == Ulp(x)
        q == x \div u
        r == x % u
    IN  IF 2 * r > u \/ (2 * r = u /\ q % 2 = 1) THEN (q + 1) * u ELSE q * u

\* The result of a double addition or subtraction whose exact value is x.
RoundDouble(x) == IF x < 0 THEN 0 - RoundMagnitude(0 - x) ELSE RoundMagnitude(x)

\* a + b and a - b of doubles.
DoubleAdd(a, b) == RoundDouble(a + b)
DoubleSub(a, b) == RoundDouble(a - b)

\* The CPU times a frame may report: doubles, none negative.
SampleValues == {0, 1, 2, 7}

\* The values SetMaxNumSamples is called with.
MaxNumSamplesValues == {0, 1, 2, 3}

RECURSIVE MaxOfSamples(_)
\* The loop of LimitSampleCount that finds the new maximum, from 0.0.
MaxOfSamples(samples) ==
    IF samples = <<>> THEN 0
    ELSE Max(Head(samples), MaxOfSamples(Tail(samples)))

RECURSIVE LimitPopFront(_)
\* The while loop of LimitSampleCount on the state
\* [samples, sum, maxValue, maxNumSamples, newMaxNeeded].
LimitPopFront(p) ==
    IF Len(p.samples) > p.maxNumSamples
    THEN LET oldestSample == Head(p.samples)
         IN  LimitPopFront([p EXCEPT
                 !.sum = DoubleSub(p.sum, oldestSample),
                 !.samples = Tail(p.samples),
                 !.newMaxNeeded = p.newMaxNeeded \/ oldestSample = p.maxValue])
    ELSE p

\* SimplePerf::LimitSampleCount
LimitSampleCount(samples, sum, maxValue, maxNumSamples) ==
    LET p == LimitPopFront([samples |-> samples, sum |-> sum,
                            maxValue |-> maxValue,
                            maxNumSamples |-> maxNumSamples,
                            newMaxNeeded |-> FALSE])
    IN  IF p.newMaxNeeded
        THEN [p EXCEPT !.maxValue = MaxOfSamples(p.samples)]
        ELSE p

\* What the frame loop and the other components hold, unchanged by a call
\* into a SimplePerf.
perfOthers == <<appVars, sceneVars, refVars, cacheVars, allocVars, m_maxTiles,
                m_tileCount, m_frameIndex, uploadCalls>>

\* SimplePerf::AddSample(t)
AddSample ==
    /\ Len(addedSamples) < MaxSamples
    /\ \E t \in SampleValues :
          LET p == LimitSampleCount(Append(m_samples, t), DoubleAdd(m_sum, t),
                                    Max(m_maxValue, t), m_maxNumSamples)
          IN  /\ m_samples' = p.samples
              /\ m_sum' = p.sum
              /\ m_maxValue' = p.maxValue
              /\ addedSamples' = Append(addedSamples, t)
    /\ UNCHANGED <<m_maxNumSamples, perfOthers>>

\* SimplePerf::SetMaxNumSamples(maxNumSamples)
SetMaxNumSamples ==
    /\ \E maxNumSamples \in MaxNumSamplesValues :
          LET p == LimitSampleCount(m_samples, m_sum, m_maxValue, maxNumSamples)
          IN  /\ m_maxNumSamples' = maxNumSamples
              /\ m_samples' = p.samples
              /\ m_sum' = p.sum
              /\ m_maxValue' = p.maxValue
    /\ UNCHANGED <<addedSamples, perfOthers>>

\* SimplePerf::GetMax
GetMax == m_maxValue

PerfNext == AddSample \/ SetMaxNumSamples

PerfSpec == Init /\ [][PerfNext]_vars

(***************************************************************************)
(* The application with a scene of full-size textures: which tiles go the  *)
(* packed way                                                               *)
(***************************************************************************)

\* What BeginFrame may return: the last regular tiles and the packed tiles
\* of a texture, and tiles of several mips.
TilingCollections ==
    {<<>>,
     <<[texture |-> 10, tileIndices |-> <<84, 85>>]>>,
     <<[texture |-> 11, tileIndices |-> <<5, 6, 7>>],
       [texture |-> 12, tileIndices |-> <<1364, 1365>>]>>,
     <<[texture |-> 12, tileIndices |-> <<0, 1023, 1024>>]>>}

TilingSceneLoaded == SceneLoadedStep({TilingScene})

TilingBeginFramePhase ==
    BeginFrameStep(TilingCollections, {DefaultTexturesPerFrame}, NoCreateFailures)

TilingNext ==
    \/ TilingSceneLoaded
    \/ SceneUnloading
    \/ GpuRetire
    \/ TilingBeginFramePhase
    \/ SchedulePhase
    \/ UpdateTileMappingsPhase
    \/ UploadPhase
    \/ RenderPasses
    \/ ProcessFeedbackAfterRender
    \/ EndOfFrame

TilingSpec == Init /\ [][TilingNext]_vars

(***************************************************************************)
(* The application when FeedbackManager::CreateTexture fails for some       *)
(* textures of the scene, with the "Use Texture Sets" checkbox cleared      *)
(***************************************************************************)

\* The sets of tiled textures of a scene for which CreateTexture may fail.
CreateFailureSets(scene) ==
    {f \in SUBSET {t \in SceneTextures(scene) : UseTiledTexture(t)} :
        Cardinality(f) <= MaxCreateFailures}

\* The cache entries whose wrapper holds no feedback texture.
FailedTextures(maps) ==
    {t \in DOMAIN maps.m_feedbackTexturesBySource :
        maps.m_feedbackTexturesBySource[t].m_feedbackTexture = NoTexture}

\* What BeginFrame may return: tiles of the textures the manager created;
\* nothing in the frame that creates them.
FailCollections ==
    IF m_recreateFeedbackTextures THEN {<<>>}
    ELSE {c \in SceneCollections(m_scene) :
            \A i \in 1 .. Len(c) : c[i].texture \notin FailedTextures(m_feedbackTextureMaps)}

\* The checkbox was cleared before the first scene was loaded.
FailInit ==
    /\ ComponentInit
    /\ SceneFields
    /\ useTextureSets = FALSE
    /\ FrameInit
    /\ tileRectCount = 1
    /\ m_maxTiles = tilesPerFrame

FailBeginFramePhase ==
    BeginFrameStep(FailCollections, {DefaultTexturesPerFrame}, CreateFailureSets(m_scene))

\* A null feedback texture is dereferenced: by the loop over
\* m_feedbackTexturesByFeedback that ends EnsureTextureSets, or by the
\* binding set of a material that uses the texture.  The behaviour is
\* undefined: the process ends here, or the frame goes on.
NullFeedbackTextureCrash ==
    /\ pc \in {"Begun", "Uploaded"}
    /\ FailedTextures(m_feedbackTextureMaps) # {}
    /\ pc' = "Crashed"
    /\ UNCHANGED <<componentVars, sceneVars, sceneLoaded, m_feedbackManager, m_cameraCut,
                   frameIndex, backBufferIndex, tilesPerFrame, m_maxTiles, m_tileCount,
                   m_frameIndex, m_requestedTiles, frameLocals, resolveRing,
                   mgrFrameIndex, gpuRetired, stagingReaders, tileRectCount>>

FailNext ==
    \/ SceneLoadedAny
    \/ SceneUnloading
    \/ GpuRetire
    \/ FailBeginFramePhase
    \/ NullFeedbackTextureCrash
    \/ SchedulePhase
    \/ UpdateTileMappingsPhase
    \/ UploadPhase
    \/ RenderPasses
    \/ ProcessFeedbackAfterRender
    \/ EndOfFrame

FailSpec == FailInit /\ [][FailNext]_vars

(***************************************************************************)
(* class FeedbackTextureImpl: reference counting, called from any thread.   *)
(* A caller of AddRef or Release holds a reference.                        *)
(***************************************************************************)

\* A Release that deletes the object one reference too early.
ReleaseDestroysEarly(result) == result <= 1

\* FeedbackTextureImpl::Release: if (result == 0) delete this
ReleaseDestroys(result) == result = 0

\* FeedbackTextureImpl::AddRef by thread t: ++m_refCount; the new reference
\* goes to thread u.
AddRef(t, u) ==
    /\ refsHeld[t] > 0
    /\ m_refCount < MaxRefs
    /\ m_refCount' = m_refCount + 1
    /\ refsHeld' = [refsHeld EXCEPT ![u] = @ + 1]
    /\ UNCHANGED <<releaseResult, destroyed, unregistered>>

\* FeedbackTextureImpl::Release by thread t, first half: the atomic
\* unsigned long result = --m_refCount.
ReleaseDecrement(t) ==
    /\ refsHeld[t] > 0
    /\ releaseResult[t] = NoResult
    /\ m_refCount' = m_refCount - 1
    /\ releaseResult' = [releaseResult EXCEPT ![t] = m_refCount - 1]
    /\ refsHeld' = [refsHeld EXCEPT ![t] = @ - 1]
    /\ UNCHANGED <<destroyed, unregistered>>

\* FeedbackTextureImpl::Release by thread t, second half: the test of
\* result and delete this, whose destructor calls UnregisterTexture(this).
ReleaseTest(t) ==
    /\ releaseResult[t] # NoResult
    /\ IF ReleaseDestroys(releaseResult[t])
       THEN /\ destroyed' = destroyed + 1
            /\ unregistered' = unregistered + 1
       ELSE UNCHANGED <<destroyed, unregistered>>
    /\ releaseResult' = [releaseResult EXCEPT ![t] = NoResult]
    /\ UNCHANGED <<m_refCount, refsHeld>>

appAndHelperVars == <<appVars, sceneVars, cacheVars, allocVars, perfVars, m_maxTiles, m_tileCount,
                      m_frameIndex, uploadCalls>>

RefNext ==
    \/ \E t \in Threads : \E u \in Threads :
          AddRef(t, u) /\ UNCHANGED appAndHelperVars
    \/ \E t \in Threads : ReleaseDecrement(t) /\ UNCHANGED appAndHelperVars
    \/ \E t \in Threads : ReleaseTest(t) /\ UNCHANGED appAndHelperVars

RefSpec == Init /\ [][RefNext]_vars

(***************************************************************************)
(* class MaterialBindingCacheFeedback: the cache of one pass, called from   *)
(* several threads, over the feedback maps it was constructed with          *)
(***************************************************************************)

\* The feedback maps of a scene once EnsureFeedbackTextures and
\* EnsureTextureSets have built them.
BuiltMaps(scene, sets) ==
    RebuildTextureSets(RebuildFeedbackTextures(EmptyMaps, scene, {}), scene, sets)

\* The pass exists and a scene is loaded; its feedback textures are either
\* not built yet, as between SceneLoaded and the first RenderScene, or built.
BindingCacheInit ==
    /\ ComponentInit
    /\ FrameInit
    /\ tileRectCount = 1
    /\ m_maxTiles = tilesPerFrame
    /\ m_scene \in Scenes
    /\ useTextureSets \in BOOLEAN
    /\ m_pick = FALSE
    /\ passesCreated = TRUE
    /\ m_BindingSets = [p \in Passes |-> EmptyMap]
    /\ \/ /\ m_recreateFeedbackTextures = TRUE
          /\ m_recreateFeedbackTextureSets = TRUE
          /\ m_textureSetsEnabled = FALSE
          /\ m_feedbackTextureMaps = EmptyMaps
          /\ textureCreated = {}
       \/ /\ m_recreateFeedbackTextures = FALSE
          /\ m_recreateFeedbackTextureSets = FALSE
          /\ m_textureSetsEnabled = useTextureSets
          /\ m_feedbackTextureMaps = BuiltMaps(m_scene, useTextureSets)
          /\ textureCreated = CreatedTextures(m_scene)

\* A lock that anyone can take at any time.
LockAlwaysFree(mutex) == TRUE

\* std::lock_guard<std::mutex> can be constructed: the mutex is not held.
LockFree(mutex) == mutex = NoThread

\* What is unchanged by a call into the cache.
cacheOthers == <<appVars, refVars, allocVars, perfVars, m_maxTiles, m_tileCount, m_frameIndex,
                 uploadCalls, m_scene, useTextureSets, m_textureSetsEnabled,
                 m_recreateFeedbackTextures, m_recreateFeedbackTextureSets,
                 m_pick, textureCreated, passesCreated>>

\* GetMaterialBindingSet, thread t: std::lock_guard lockGuard(m_Mutex)
CallLock(t, material) ==
    /\ ~crashed
    /\ callPc[t] = "idle"
    /\ LockFree(m_Mutex)
    /\ m_Mutex' = t
    /\ callPc' = [callPc EXCEPT ![t] = "locked"]
    /\ callMaterial' = [callMaterial EXCEPT ![t] = material]
    /\ UNCHANGED <<cacheOthers, m_BindingSets, m_feedbackTextureMaps,
                   numCreated, returnedTo, crashed>>

\* GetMaterialBindingSet, thread t: bindingSet = m_BindingSets[material];
\* if (bindingSet) return bindingSet;
CallLookup(t) ==
    /\ ~crashed
    /\ callPc[t] = "locked"
    /\ LET material == callMaterial[t] IN
       IF material \in DOMAIN m_BindingSets["m_gBufferPass"]
       THEN /\ returnedTo' = [returnedTo EXCEPT ![material][t] = numCreated[material]]
            /\ callPc' = [callPc EXCEPT ![t] = "idle"]
            /\ callMaterial' = [callMaterial EXCEPT ![t] = NoMaterial]
            /\ m_Mutex' = NoThread
       ELSE /\ callPc' = [callPc EXCEPT ![t] = "create"]
            /\ UNCHANGED <<returnedTo, callMaterial, m_Mutex>>
    /\ UNCHANGED <<cacheOthers, m_BindingSets, m_feedbackTextureMaps, numCreated,
                   crashed>>

\* The entries operator[] adds to m_feedbackTexturesBySource when the
\* binding set of a material is created: a null wrapper for every texture of
\* the material that has neither a texture of its own nor an entry.
WithNullWrappers(bySource, created, material) ==
    LET missing == {Material(material)[slot] : slot \in BoundSlots}
                      \ ({NoTexture} \cup created \cup DOMAIN bySource) IN
    [t \in DOMAIN bySource \cup missing |->
        IF t \in missing THEN NullWrapper ELSE bySource[t]]

\* GetMaterialBindingSet, thread t: bindingSet =
\* CreateMaterialBindingSet(material); return bindingSet.  Dereferencing
\* the null wrapper of a missing entry is undefined: the process ends, or
\* the call goes on with whatever it read.
CallCreate(t) ==
    /\ ~crashed
    /\ callPc[t] = "create"
    /\ LET material == callMaterial[t]
           bindingSet == CreateMaterialBindingSet(m_feedbackTextureMaps,
                                                  textureCreated, material)
           finish ==
              /\ m_BindingSets' =
                    [m_BindingSets EXCEPT !["m_gBufferPass"] =
                       [m \in DOMAIN @ \cup {material} |->
                          IF m = material THEN bindingSet ELSE @[m]]]
              /\ m_feedbackTextureMaps' =
                    [m_feedbackTextureMaps EXCEPT !.m_feedbackTexturesBySource =
                       WithNullWrappers(@, textureCreated, material)]
              /\ numCreated' = [numCreated EXCEPT ![material] = @ + 1]
              /\ returnedTo' = [returnedTo EXCEPT ![material][t] = numCreated[material] + 1]
              /\ callPc' = [callPc EXCEPT ![t] = "idle"]
              /\ callMaterial' = [callMaterial EXCEPT ![t] = NoMaterial]
              /\ m_Mutex' = NoThread
              /\ UNCHANGED crashed IN
       IF DereferencesNull(bindingSet)
       THEN \/ finish
            \/ /\ crashed' = TRUE
               /\ UNCHANGED <<m_BindingSets, m_feedbackTextureMaps, numCreated,
                              returnedTo, callPc, callMaterial, m_Mutex>>
       ELSE finish
    /\ UNCHANGED cacheOthers

\* MaterialBindingCacheFeedback::Clear
CacheClear ==
    /\ ~crashed
    /\ LockFree(m_Mutex)
    /\ m_BindingSets' = [m_BindingSets EXCEPT !["m_gBufferPass"] = EmptyMap]
    /\ numCreated' = [m \in AllMaterials |-> 0]
    /\ returnedTo' = [m \in AllMaterials |-> [t \in CacheThreads |-> 0]]
    /\ UNCHANGED <<cacheOthers, m_feedbackTextureMaps, m_Mutex, callPc,
                   callMaterial, crashed>>

BindingCacheNext ==
    \/ \E t \in CacheThreads : \E material \in SceneMaterials(m_scene) :
          CallLock(t, material)
    \/ \E t \in CacheThreads : CallLookup(t)
    \/ \E t \in CacheThreads : CallCreate(t)
    \/ CacheClear

BindingCacheSpec == BindingCacheInit /\ [][BindingCacheNext]_vars

(***************************************************************************)
(* Properties                                                              *)
(***************************************************************************)

InFrame(states) == pc \in states

AfterSchedule == {"Scheduled", "Mapped", "Uploaded", "Rendered", "FrameDone"}

AfterUpload == {"Uploaded", "Rendered", "FrameDone"}

Range(s) == {s[k] : k \in 1 .. Len(s)}

\* Number of entries of a sequence that satisfy Test.
CountIf(s, Test(_)) == Cardinality({k \in 1 .. Len(s) : Test(s[k])})

\* Regular tiles scheduled in this frame.
NumRegularScheduled == CountIf(Flatten(tilesThisFrame), LAMBDA r : ~IsPackedReq(r))

\* Regular-tile uploads carried out in this frame.
NumRegularUploaded ==
    CountIf(uploadCalls, LAMBDA c : c.path = "UploadTile" /\ c.ret)

\* C1: in every frame the number of regular tiles scheduled, and the number
\* uploaded, is at most min(tilesPerFrame, m_maxTiles).
C1_BudgetInvariant ==
    /\ InFrame(AfterSchedule) =>
          /\ NumRegularScheduled <= Min(tilesPerFrame, m_maxTiles)
          /\ countUpload = NumRegularScheduled
    /\ InFrame(AfterUpload) =>
          NumRegularUploaded <= Min(tilesPerFrame, m_maxTiles)

\* A frame whose budget binds: the setting is below the staging capacity,
\* as many regular tiles as the setting allows were uploaded, more wait.
C1_Witness ==
    /\ pc = "Uploaded"
    /\ tilesPerFrame < m_maxTiles
    /\ NumRegularUploaded = tilesPerFrame
    /\ Len(m_requestedTiles) > 0

\* The tile indices scheduled for texture t, in scheduling order.
ScheduledFor(ttf, t) ==
    LET k == FindTexture(ttf, t) IN IF k = 0 THEN <<>> ELSE ttf[k].tileIndices

\* The tile indices of the requests of s that belong to texture t, in order.
IndicesOf(s, t) ==
    LET sel == SelectSeq(s, LAMBDA r : r.texture = t)
    IN [k \in 1 .. Len(sel) |-> sel[k].tileIndex]

\* C2: the scheduling step removes exactly min(queue length, capacity,
\* tilesPerFrame) requests from the front of m_requestedTiles and schedules
\* them in queue order; the rest stays queued in order; the requests a frame
\* collects are appended behind the queue; no other step touches the queue
\* while the scene stays loaded.
C2_FifoScheduling ==
    [][/\ (pc = "Begun" /\ pc' = "Scheduled") =>
             LET n == Min(Min(Len(m_requestedTiles), m_maxTiles), tilesPerFrame)
                 front == SubSeq(m_requestedTiles, 1, n)
             IN /\ countUpload' = n
                /\ m_requestedTiles' = SubSeq(m_requestedTiles, n + 1, Len(m_requestedTiles))
                /\ \A t \in Textures :
                      ScheduledFor(tilesThisFrame', t) =
                         IndicesOf(requestedPackedTiles, t) \o IndicesOf(front, t)
       /\ (pc = "Idle" /\ pc' = "Begun") =>
             m_requestedTiles' =
                m_requestedTiles \o SelectRegular(Flatten(updatedTextures'))
       /\ (/\ ~(pc = "Begun" /\ pc' = "Scheduled")
           /\ ~(pc = "Idle" /\ pc' = "Begun")
           /\ sceneLoaded') => m_requestedTiles' = m_requestedTiles
      ]_vars

\* Three requests pending under a budget of one: the oldest is scheduled and
\* the two younger, distinct ones stay queued.
C2_Witness ==
    /\ pc = "Scheduled"
    /\ countUpload = 1
    /\ tilesPerFrame = 1
    /\ Len(m_requestedTiles) = 2
    /\ m_requestedTiles[1] # m_requestedTiles[2]
    /\ requestedPackedTiles = <<>>
    /\ Len(tilesThisFrame) = 1

\* C3: a packed tile never enters m_requestedTiles; every packed tile that
\* BeginFrame returns is collected, scheduled in the same frame whatever the
\* budget, and uploaded through writeTexture, never through UploadTile.
C3_PackedNeverBudgeted ==
    /\ \A k \in 1 .. Len(m_requestedTiles) : ~IsPackedReq(m_requestedTiles[k])
    /\ pc = "Begun" =>
          requestedPackedTiles = SelectPacked(Flatten(updatedTextures))
    /\ InFrame(AfterSchedule) =>
          /\ \A t \in Textures :
                SelectSeq(ScheduledFor(tilesThisFrame, t), LAMBDA i : IsTilePacked(t, i))
                   = IndicesOf(requestedPackedTiles, t)
    /\ InFrame(AfterUpload) =>
          /\ \A p \in Range(requestedPackedTiles) :
                \E k \in 1 .. Len(uploadCalls) :
                   uploadCalls[k].tile = p /\ uploadCalls[k].path = "writeTexture"
          /\ \A k \in 1 .. Len(uploadCalls) :
                IsPackedReq(uploadCalls[k].tile) <=> uploadCalls[k].path = "writeTexture"

\* Two packed tiles uploaded in a frame whose regular budget is one tile and
\* whose queue still holds requests.
C3_Witness ==
    /\ pc = "Uploaded"
    /\ Len(requestedPackedTiles) = 2
    /\ tilesPerFrame = 1
    /\ Len(m_requestedTiles) > 0
    /\ CountIf(uploadCalls, LAMBDA c : c.path = "writeTexture") >= 2

\* Number of staging copies issued by a sequence of upload calls.
RECURSIVE NumCopies(_)
NumCopies(calls) ==
    IF calls = <<>> THEN 0
    ELSE Len(calls[1].copies) + NumCopies(Tail(calls))

\* C4: the tile counter of every staging slot is at most m_maxTiles; every
\* staging write issued since BeginFrame lies inside the slot's buffer of
\* m_maxTiles tiles, and at most m_maxTiles tiles were copied into the slot.
C4_StagingCapacity ==
    /\ \A s \in Slots : m_tileCount[s] <= m_maxTiles
    /\ \A k \in 1 .. Len(uploadCalls) :
          \A j \in 1 .. Len(uploadCalls[k].copies) :
             LET c == uploadCalls[k].copies[j] IN
                /\ c.bufferOffset >= 0
                /\ c.bufferOffset + TileSizeInBytes <= m_maxTiles * TileSizeInBytes
    /\ NumCopies(uploadCalls) <= m_maxTiles

\* A slot filled to a capacity of at least two tiles.
C4_Witness ==
    /\ m_frameIndex # NoSlot
    /\ m_maxTiles >= 2
    /\ m_tileCount[m_frameIndex] = m_maxTiles
    /\ NumCopies(uploadCalls) = m_maxTiles

\* C5: UploadTile called with the current slot's counter at m_maxTiles
\* returns false, issues no copy and leaves every counter unchanged;
\* otherwise it returns true, issues one copy and adds exactly one to the
\* current slot's counter.
C5_UploadTileAtCapacity ==
    [][ Len(uploadCalls') = Len(uploadCalls) + 1 =>
          LET call == uploadCalls'[Len(uploadCalls')] IN
             IF m_tileCount[m_frameIndex] >= m_maxTiles
             THEN /\ call.ret = FALSE
                  /\ call.copies = <<>>
                  /\ m_tileCount' = m_tileCount
             ELSE /\ call.ret = TRUE
                  /\ Len(call.copies) = 1
                  /\ m_tileCount' =
                        [m_tileCount EXCEPT ![m_frameIndex] = @ + 1]
      ]_vars

\* An accepted call followed by a refused one.
C5_Witness ==
    /\ Len(uploadCalls) >= 2
    /\ uploadCalls[1].ret = TRUE
    /\ uploadCalls[Len(uploadCalls)].ret = FALSE

\* C6: a regular tile that UpdateTileMappings failed to map in this frame is
\* still in m_requestedTiles, to be retried in a later frame.
C6_FailedTileStaysQueued ==
    \A r \in mapFailed : ~IsPackedReq(r) => r \in Range(m_requestedTiles)

ManagerCalls(log) ==
    SelectSeq(log, LAMBDA e : e \notin {"open", "close", "execute"})

\* The calls a frame has made when it stands at pc.
ExpectedCalls ==
    LET upload == IF tilesThisFrame # <<>> THEN <<"UploadTiles">> ELSE <<>> IN
    CASE pc = "Idle" -> <<>>
      [] pc \in {"Begun", "Scheduled"} -> <<"BeginFrame">>
      [] pc = "Mapped" -> <<"BeginFrame", "UpdateTileMappings">>
      [] pc = "Uploaded" -> <<"BeginFrame", "UpdateTileMappings">> \o upload
      [] pc = "Rendered" ->
            <<"BeginFrame", "UpdateTileMappings">> \o upload \o <<"RenderPasses">>
      [] pc = "FrameDone" ->
            <<"BeginFrame", "UpdateTileMappings">> \o upload
               \o <<"RenderPasses", "ResolveFeedback", "EndFrame">>

IsCall(e) == e \notin {"open", "close", "execute"}

\* Every call is recorded in an open command list, every list is closed and
\* then executed, and a list holds one call, except that EndFrame follows
\* ResolveFeedback in the same list.
ListsSubmitted(log) ==
    /\ log # <<>> => (log[1] = "open" /\ log[Len(log)] = "execute")
    /\ \A k \in 1 .. Len(log) :
          /\ log[k] = "open" => (k < Len(log) /\ IsCall(log[k + 1]))
          /\ log[k] = "close" => (k < Len(log) /\ log[k + 1] = "execute")
          /\ log[k] = "execute" => (k = Len(log) \/ log[k + 1] = "open")
          /\ IsCall(log[k]) =>
                /\ k < Len(log)
                /\ \/ log[k + 1] = "close"
                   \/ (log[k] = "ResolveFeedback" /\ log[k + 1] = "EndFrame")

\* C8 as stated: a finished frame has made the six calls, each once and in
\* order, and the command list of each is closed and executed before the
\* next call.
C8_EachPhaseOnceOwnList ==
    pc = "FrameDone" =>
       /\ ManagerCalls(cmdLog) =
             <<"BeginFrame", "UpdateTileMappings", "UploadTiles",
               "RenderPasses", "ResolveFeedback", "EndFrame">>
       /\ \A k \in 1 .. Len(cmdLog) - 1 :
             (IsCall(cmdLog[k]) /\ cmdLog[k] # "EndFrame") =>
                (k + 2 <= Len(cmdLog) /\ cmdLog[k + 1] = "close"
                                       /\ cmdLog[k + 2] = "execute")

\* C8: within a frame the calls are BeginFrame, UpdateTileMappings, the tile
\* uploads if at least one tile was scheduled, the render passes,
\* ResolveFeedback and EndFrame, in this order and none twice; each command
\* list is closed and executed before the next is opened, EndFrame being
\* called inside the list of ResolveFeedback; between two frames the log is
\* empty, so no call of the next frame precedes EndFrame of this one.
C8_PhaseOrder ==
    /\ ManagerCalls(cmdLog) = ExpectedCalls
    /\ ListsSubmitted(cmdLog)
    /\ (pc = "Idle") = (cmdLog = <<>>)

\* A second or later frame that uploaded tiles and has reached its end.
C8_Witness ==
    /\ pc = "FrameDone"
    /\ frameIndex >= 1
    /\ "UploadTiles" \in Range(cmdLog)
    /\ cmdLog[Len(cmdLog) - 2] = "EndFrame"

\* C9: once a frame is past the mapping step its log holds exactly one
\* UpdateTileMappings call, whatever was scheduled; it holds one upload block
\* after the upload step exactly if at least one tile was scheduled, and
\* none otherwise.
C9_UpdateTileMappingsAlways ==
    /\ CountIf(cmdLog, LAMBDA e : e = "UpdateTileMappings") =
          (IF pc \in {"Mapped", "Uploaded", "Rendered", "FrameDone"} THEN 1 ELSE 0)
    /\ CountIf(cmdLog, LAMBDA e : e = "UploadTiles") =
          (IF pc \in AfterUpload /\ Flatten(tilesThisFrame) # <<>> THEN 1 ELSE 0)
    /\ (pc \in AfterSchedule /\ requestedPackedTiles = <<>> /\ countUpload = 0) =>
          tilesThisFrame = <<>>

\* A finished frame that scheduled nothing: UpdateTileMappings was called,
\* the upload block was not.
C9_Witness ==
    /\ pc = "FrameDone"
    /\ tilesThisFrame = <<>>
    /\ "UpdateTileMappings" \in Range(cmdLog)
    /\ "UploadTiles" \notin Range(cmdLog)

\* C10: the staging slot of frame F is F mod FramesInFlight; any
\* FramesInFlight consecutive frames use pairwise distinct slots; the copies
\* the GPU still reads from a slot belong to frames of that slot, and the slot
\* the CPU writes in the current frame is read by no earlier frame.
C10_StagingRingExclusive ==
    /\ pc # "Idle" => m_frameIndex = frameIndex % FramesInFlight
    /\ \A f \in 0 .. MaxFrames : \A g \in 0 .. MaxFrames :
          (f < g /\ g < f + FramesInFlight) => HelperSlot(f) # HelperSlot(g)
    /\ \A s \in Slots : \A f \in stagingReaders[s] :
          /\ f <= frameIndex
          /\ f % FramesInFlight = s
    /\ pc # "Idle" => stagingReaders[m_frameIndex] \subseteq {frameIndex}

\* A frame that reuses a slot for its copies while the GPU still reads the
\* copies of earlier frames from every other slot.
C10_Witness ==
    /\ pc = "Uploaded"
    /\ frameIndex >= FramesInFlight
    /\ frameIndex \in stagingReaders[m_frameIndex]
    /\ \A s \in Slots : stagingReaders[s] # {}

\* C11: a TileUploadHelper::BeginFrame(f) step selects slot f mod
\* FramesInFlight and sets that slot's counter to 0; the counters of the other
\* slots and the capacity are unchanged.
C11_BeginFrameResetsOwnSlot ==
    [][ (uploadCalls' = <<>> /\ Len(uploadCalls') # Len(uploadCalls) + 1) =>
          /\ m_frameIndex' = frameIndex' % FramesInFlight
          /\ m_tileCount'[m_frameIndex'] = 0
          /\ \A s \in Slots \ {m_frameIndex'} : m_tileCount'[s] = m_tileCount[s]
          /\ DOMAIN m_tileCount' = Slots
          /\ m_maxTiles' = m_maxTiles
      ]_vars

\* BeginFrame has just reset the slot of a frame index past the first lap of
\* the ring while both other slots still hold tiles.
C11_Witness ==
    /\ uploadCalls = <<>>
    /\ frameIndex >= FramesInFlight
    /\ m_frameIndex = frameIndex % FramesInFlight
    /\ m_tileCount[m_frameIndex] = 0
    /\ \A s \in Slots \ {m_frameIndex} : m_tileCount[s] > 0

\* No frame has resolved feedback on the current manager: the frame that
\* begins now, or runs, is the first since the scene was loaded.
FirstFrameAfterLoad == \A s \in Slots : resolveRing[s] = NoFrame

\* C12: the first frame after a scene load calls BeginFrame with
\* maxTexturesToUpdate = 0 whatever m_ui.texturesPerFrame is, and clears
\* m_cameraCut; every later frame of that scene passes
\* max(m_ui.texturesPerFrame, 0).
C12_CameraCut ==
    /\ pc = "Begun" =>
          fconfig.maxTexturesToUpdate =
             (IF FirstFrameAfterLoad THEN 0
              ELSE IF fconfig.texturesPerFrame > 0 THEN fconfig.texturesPerFrame
              ELSE 0)
    /\ pc # "Idle" => ~m_cameraCut
    /\ (pc = "Idle" /\ sceneLoaded) => (m_cameraCut <=> FirstFrameAfterLoad)

\* The first frame after a reload, with the throttle set to ten textures,
\* has called BeginFrame with no limit.
C12_Witness ==
    /\ pc = "Begun"
    /\ frameIndex >= 1
    /\ FirstFrameAfterLoad
    /\ fconfig.texturesPerFrame = 10
    /\ fconfig.maxTexturesToUpdate = 0

\* References held by all threads.
RECURSIVE SumHeld(_)
SumHeld(T) ==
    IF T = {} THEN 0
    ELSE LET t == CHOOSE x \in T : TRUE IN refsHeld[t] + SumHeld(T \ {t})

\* C20: the texture starts with count 1; under any interleaving of AddRef and
\* Release by reference holders the count equals the references held, the
\* destructor runs at most once, only after a Release brought the count to
\* 0, never while the count is above 0, and with it exactly one
\* UnregisterTexture; once no reference and no unfinished Release is left the
\* destructor has run.
C20_RefCountLifetime ==
    /\ m_refCount = SumHeld(Threads)
    /\ m_refCount >= 0
    /\ destroyed <= 1
    /\ unregistered = destroyed
    /\ destroyed = 1 => m_refCount = 0
    /\ m_refCount > 0 => \A t \in Threads : releaseResult[t] \notin {0}
    /\ (m_refCount = 0 /\ \A t \in Threads : releaseResult[t] = NoResult) =>
          destroyed = 1

\* Both threads released references, and the last Release destroyed the
\* texture.
C20_Witness ==
    /\ destroyed = 1
    /\ unregistered = 1
    /\ m_refCount = 0
    /\ \A t \in Threads : releaseResult[t] = NoResult /\ refsHeld[t] = 0

\* The feedback textures and the texture sets are built for the loaded scene.
MapsBuilt ==
    /\ sceneLoaded
    /\ ~m_recreateFeedbackTextures
    /\ ~m_recreateFeedbackTextureSets

\* The tiled textures among the textures of a material.
TiledMembers(m) ==
    {Material(m)[k] : k \in DOMAIN Material(m)}
       \cap DOMAIN m_feedbackTextureMaps.m_feedbackTexturesBySource

\* The material has a tiled diffuse texture, the primary of its candidate set.
HasTiledPrimary(m) == Material(m).baseOrDiffuseTexture \in TiledMembers(m)

\* No tiled texture of the material is wider or higher than its diffuse
\* texture or has more mip levels, as reserved textures.
AllWithinPrimary(m) ==
    LET primary == TextureDesc(Material(m).baseOrDiffuseTexture) IN
    \A t \in TiledMembers(m) :
       /\ TextureDesc(t).width <= primary.width
       /\ TextureDesc(t).height <= primary.height
       /\ TextureDesc(t).mipLevels <= primary.mipLevels

\* C13: with texture sets enabled and built, a material with a tiled diffuse
\* texture has an entry in m_feedbackTextureSetsByMaterial if and only if
\* no texture of its candidate set exceeds the diffuse texture in width,
\* height or mip count; an entry holds the whole candidate set, the diffuse
\* texture first; a material without a tiled diffuse texture has no entry.
C13_TextureSetAdmission ==
    (MapsBuilt /\ m_textureSetsEnabled) =>
       \A m \in SceneMaterials(m_scene) :
          LET sets == m_feedbackTextureMaps.m_feedbackTextureSetsByMaterial IN
          /\ m \in DOMAIN sets <=> (HasTiledPrimary(m) /\ AllWithinPrimary(m))
          /\ m \in DOMAIN sets =>
                /\ Range(sets[m]) = TiledMembers(m)
                /\ Len(sets[m]) = Cardinality(TiledMembers(m))
                /\ sets[m][1] = Material(m).baseOrDiffuseTexture

\* The second scene with its texture sets built: the sets with a follower
\* higher than the primary, or with more mip levels, are missing, the other
\* two are stored whole.
C13_Witness ==
    /\ MapsBuilt
    /\ m_textureSetsEnabled
    /\ m_scene = 2
    /\ DOMAIN m_feedbackTextureMaps.m_feedbackTextureSetsByMaterial = {6, 7}
    /\ m_feedbackTextureMaps.m_feedbackTextureSetsByMaterial[6] = <<4, 7>>

\* C14: once the texture sets are built, every material of the scene has one
\* feedback-constants buffer, whose useTextureSet is true exactly for the
\* materials with an admitted texture set: false for a rejected candidate
\* set, for a material without candidate set, and for every material when
\* texture sets are disabled.
C14_FeedbackConstants ==
    MapsBuilt =>
       LET constants == m_feedbackTextureMaps.m_materialConstantsFeedback
           sets == m_feedbackTextureMaps.m_feedbackTextureSetsByMaterial IN
       /\ DOMAIN constants = SceneMaterials(m_scene)
       /\ \A m \in SceneMaterials(m_scene) :
             /\ constants[m].useTextureSet <=> m \in DOMAIN sets
             /\ constants[m].useTextureSet <=>
                   (m_textureSetsEnabled /\ HasTiledPrimary(m) /\ AllWithinPrimary(m))

\* The first scene with texture sets enabled: the material with the
\* admitted set has useTextureSet, the one with the rejected set and the one
\* without a tiled diffuse texture do not.
C14_Witness ==
    /\ MapsBuilt
    /\ m_textureSetsEnabled
    /\ m_scene = 1
    /\ m_feedbackTextureMaps.m_materialConstantsFeedback[1].useTextureSet
    /\ ~m_feedbackTextureMaps.m_materialConstantsFeedback[2].useTextureSet
    /\ ~m_feedbackTextureMaps.m_materialConstantsFeedback[3].useTextureSet

\* The names of the five lookups of FeedbackTextureMaps.
MapNames == DOMAIN EmptyMaps

\* C18 as stated: a step that empties one of the five lookups leaves all
\* five empty.
C18_NeverPartiallyInvalidated ==
    [][ \A n \in MapNames :
          (m_feedbackTextureMaps[n] # EmptyMap /\ m_feedbackTextureMaps'[n] = EmptyMap)
             => m_feedbackTextureMaps' = EmptyMaps ]_vars

\* C18, amended: only SceneUnloading empties all five lookups; between
\* frames and inside a frame the maps are either all empty or describe the
\* loaded scene: the three texture lookups hold the same wrapper for every
\* tiled texture of the scene and nothing else, every material of the scene
\* has its constants, and every texture set belongs to a material of the
\* scene and is made of textures in the lookups.
C18_MapsConsistent ==
    LET maps == m_feedbackTextureMaps
        tiled == {t \in SceneTextures(m_scene) : UseTiledTexture(t)} IN
    /\ ~MapsBuilt => maps = EmptyMaps
    /\ MapsBuilt =>
          /\ DOMAIN maps.m_feedbackTexturesByName = tiled
          /\ DOMAIN maps.m_feedbackTexturesByFeedback = tiled
          /\ DOMAIN maps.m_feedbackTexturesBySource = tiled
          /\ \A t \in tiled :
                /\ maps.m_feedbackTexturesByName[t] = maps.m_feedbackTexturesBySource[t]
                /\ maps.m_feedbackTexturesByFeedback[t] = maps.m_feedbackTexturesBySource[t]
                /\ maps.m_feedbackTexturesBySource[t].m_sourceTexture = t
          /\ DOMAIN maps.m_materialConstantsFeedback = SceneMaterials(m_scene)
          /\ DOMAIN maps.m_feedbackTextureSetsByMaterial \subseteq SceneMaterials(m_scene)
          /\ \A m \in DOMAIN maps.m_feedbackTextureSetsByMaterial :
                Range(maps.m_feedbackTextureSetsByMaterial[m]) \subseteq tiled
          /\ ~m_textureSetsEnabled => maps.m_feedbackTextureSetsByMaterial = EmptyMap

\* A frame after the checkbox was cleared: the texture sets are gone, the
\* texture lookups and the constants are in place.
C18_Witness ==
    /\ MapsBuilt
    /\ pc = "Begun"
    /\ frameIndex >= 1
    /\ ~m_textureSetsEnabled
    /\ m_feedbackTextureMaps.m_feedbackTextureSetsByMaterial = EmptyMap
    /\ m_feedbackTextureMaps.m_feedbackTexturesByName # EmptyMap
    /\ m_feedbackTextureMaps.m_materialConstantsFeedback # EmptyMap

\* The textures named by the request queue and by the tiles collected,
\* scheduled and uploaded in the current frame.
TexturesInFlight ==
    {m_requestedTiles[k].texture : k \in 1 .. Len(m_requestedTiles)}
       \cup {requestedPackedTiles[k].texture : k \in 1 .. Len(requestedPackedTiles)}
       \cup {updatedTextures[k].texture : k \in 1 .. Len(updatedTextures)}
       \cup {tilesThisFrame[k].texture : k \in 1 .. Len(tilesThisFrame)}
       \cup {uploadCalls[k].tile.texture : k \in 1 .. Len(uploadCalls)}
       \cup {r.texture : r \in mapFailed}

\* C19: while no scene is loaded the request queue and all feedback maps are
\* empty and there is no FeedbackManager; a loaded scene has a manager, whose
\* resolve buffers hold nothing until its first frame; the textures and sets
\* are rebuilt before BeginFrame is called, from empty maps; and every tile
\* queued, collected, scheduled, mapped or uploaded belongs to a feedback
\* texture of the scene now loaded.
C19_NoStateSurvivesReload ==
    /\ ~sceneLoaded =>
          /\ m_requestedTiles = <<>>
          /\ m_feedbackTextureMaps = EmptyMaps
          /\ ~m_feedbackManager
    /\ sceneLoaded => m_feedbackManager
    /\ (sceneLoaded /\ m_cameraCut) =>
          /\ pc = "Idle"
          /\ m_requestedTiles = <<>>
          /\ m_feedbackTextureMaps = EmptyMaps
          /\ FirstFrameAfterLoad
          /\ m_recreateFeedbackTextures
          /\ m_recreateFeedbackTextureSets
    /\ pc # "Idle" => MapsBuilt
    /\ TexturesInFlight \subseteq SceneTextures(m_scene)
    /\ TexturesInFlight \subseteq DOMAIN m_feedbackTextureMaps.m_feedbackTexturesByFeedback

\* The second frame of the second scene, loaded after frames of another
\* load: tiles of its textures are uploaded and one is left in the queue.
C19_Witness ==
    /\ sceneLoaded
    /\ m_scene = 2
    /\ frameIndex >= 2
    /\ Cardinality({s \in Slots : resolveRing[s] # NoFrame}) = 1
    /\ pc = "Uploaded"
    /\ uploadCalls # <<>>
    /\ m_requestedTiles # <<>>

\* The passes that have drawn the materials of the scene in this frame.
PassesDrawn ==
    IF pc \in {"Rendered", "FrameDone"}
    THEN {"m_gBufferPass"} \cup (IF m_pick THEN {"m_materialIDPass"} ELSE {})
    ELSE {}

\* C16 as stated: the binding set a pass has returned for a material in this
\* frame is the one built from the feedback maps as they are in this frame.
C16_NoStaleBindingSet ==
    \A p \in PassesDrawn : \A m \in SceneMaterials(m_scene) :
       m_BindingSets[p][m] =
          CreateMaterialBindingSet(m_feedbackTextureMaps, textureCreated, m)

FallbackItems ==
    <<<<"m_FallbackTexture", NoTexture>>,
      <<"m_FallbackSamplerFeedbackTexture", NoTexture>>,
      <<"m_FallbackTexture", NoTexture>>>>

C22_TileabilityRouting ==
    MapsBuilt =>
       \A t \in SceneTextures(m_scene) :
          LET d == TextureData(t)
              tileable == /\ d.format \in BlockCompressedFormats
                          /\ d.depth = 1
                          /\ d.arraySize = 1
              maps == m_feedbackTextureMaps
              sources(map) == {map[k].m_sourceTexture : k \in DOMAIN map} IN
          /\ t \in sources(maps.m_feedbackTexturesByName) <=> tileable
          /\ t \in sources(maps.m_feedbackTexturesByFeedback) <=> tileable
          /\ t \in sources(maps.m_feedbackTexturesBySource) <=> tileable
          /\ t \in DOMAIN maps.m_feedbackTexturesBySource <=> tileable
          /\ t \in textureCreated <=> ~tileable
          /\ ~tileable =>
                Cardinality(UploadedSubresources(t)) = d.arraySize * d.mipLevels

\* The second scene built: its four flat block-compressed textures are
\* tiled, the cube map and the volume, both block-compressed, are not.
C22_Witness ==
    /\ MapsBuilt
    /\ m_scene = 2
    /\ DOMAIN m_feedbackTextureMaps.m_feedbackTexturesBySource = {4, 5, 6, 7}
    /\ textureCreated = {8, 9}

C27_ConfigFrameIndexInRange ==
    /\ DOMAIN resolveRing = 0 .. (FramesInFlight - 1)
    /\ mgrFrameIndex \in 0 .. (FramesInFlight - 1)
    /\ readback # OutOfRange
    /\ pc # "Idle" => mgrFrameIndex = backBufferIndex

\* The frame after the back buffers went round once: the frame counter is
\* past the last slot and the index given to BeginFrame is 0 again.
C27_Witness ==
    /\ pc = "Begun"
    /\ frameIndex = FramesInFlight
    /\ mgrFrameIndex = 0

\* The UploadTile calls of this frame, in order.
UploadTileCalls == SelectSeq(uploadCalls, LAMBDA c : c.path = "UploadTile")

BlocksRead(call) ==
    LET bytesPerBlock == BytesPerBlock(call.in.tileShape)
        pitch == RowPitchSource(call.in.mipWidthInTexels, call.in.tileShape) IN
    UNION {{<<(call.rows[k].readOffset % pitch) \div bytesPerBlock + i,
              call.rows[k].readOffset \div pitch>> :
                 i \in 0 .. (call.rows[k].size \div bytesPerBlock - 1)} :
           k \in 1 .. Len(call.rows)}

\* The 4x4 blocks that intersect the rectangle of a tile.
BlocksOfRect(tile) ==
    {<<bx, by>> :
        bx \in (tile.xInTexels \div 4) .. ((tile.xInTexels + tile.widthInTexels - 1) \div 4),
        by \in (tile.yInTexels \div 4) .. ((tile.yInTexels + tile.heightInTexels - 1) \div 4)}

\* The width of a tile in blocks, a started block counted as one.
TileBlocksRoundedUp(texels) == (texels + 3) \div 4

\* C29 as stated: a successful UploadTile reads exactly the blocks of the
\* source mip that intersect the rectangle of the tile, in ceil(h/4) rows of
\* ceil(w/4) blocks, whether or not the rectangle is smaller than the tile
\* shape or its width or height a multiple of 4.
C29_CopiesWholeRectangle ==
    \A k \in 1 .. Len(uploadCalls) :
       LET call == uploadCalls[k] IN
       call.ret =>
          /\ BlocksRead(call) = BlocksOfRect(call.in.tile)
          /\ Len(call.rows) = TileBlocksRoundedUp(call.in.tile.heightInTexels)
          /\ \A r \in 1 .. Len(call.rows) :
                call.rows[r].size = TileBlocksRoundedUp(call.in.tile.widthInTexels)
                                       * BytesPerBlock(call.in.tileShape)

\* The successful UploadTile calls of this frame, in order.
SuccessfulCalls == SelectSeq(uploadCalls, LAMBDA c : c.ret)

\* The rectangle of the call is no larger than the tile shape.
WithinTileShape(call) ==
    /\ call.in.tile.widthInTexels <= call.in.tileShape.widthInTexels
    /\ call.in.tile.heightInTexels <= call.in.tileShape.heightInTexels

\* C30: the k-th successful UploadTile of a frame, counted from 0, uses
\* staging offset k * 65536 for its writes and for the footprint of its GPU
\* copy; when its rectangle is no larger than the tile shape every byte it
\* writes lies in [k * 65536, (k + 1) * 65536), row after row upwards, below
\* the end of the staging buffer of m_maxTiles * 65536 bytes, and below
\* every byte the next such call of the frame writes.
C30_StagingOffsets ==
    \A k \in 1 .. Len(SuccessfulCalls) :
       LET call == SuccessfulCalls[k]
           rows == call.rows
           lo == (k - 1) * 65536
           hi == k * 65536 IN
       /\ call.copies[1].bufferOffset = lo
       /\ call.footprint.Offset = lo
       /\ WithinTileShape(call) =>
             /\ \A r \in 1 .. Len(rows) :
                   /\ lo <= rows[r].writeOffset
                   /\ rows[r].size >= 0
                   /\ rows[r].writeOffset + rows[r].size <= hi
                   /\ r > 1 => rows[r - 1].writeOffset + rows[r - 1].size <= rows[r].writeOffset
             /\ hi <= m_maxTiles * 65536
             /\ \A j \in 1 .. (k - 1) :
                   LET before == SuccessfulCalls[j].rows IN
                   (WithinTileShape(SuccessfulCalls[j]) /\ Len(before) > 0 /\ Len(rows) > 0) =>
                      before[Len(before)].writeOffset + before[Len(before)].size
                         <= rows[1].writeOffset

\* Two tiles uploaded in one frame, a whole tile after the last tile of a
\* row: the second fills its 65536 bytes from offset 65536.
C30_Witness ==
    /\ Len(SuccessfulCalls) = 2
    /\ SuccessfulCalls[1].in.tile.widthInTexels = 232
    /\ SuccessfulCalls[2].in.tile.widthInTexels = 256
    /\ SuccessfulCalls[2].rows[1].writeOffset = 65536
    /\ SuccessfulCalls[2].rows[64].writeOffset + SuccessfulCalls[2].rows[64].size = 131072

\* The textures of the tiles in a sequence of requests.
TexturesOf(requests) == {requests[k].texture : k \in 1 .. Len(requests)}

\* C21 as stated: a texture for which the creation of the tiled texture
\* failed is in none of the feedback lookups, it got a fully resident
\* texture instead, and no tile of it is requested, scheduled or uploaded.
C21_FailedCreationFallsBack ==
    (sceneLoaded /\ ~m_recreateFeedbackTextures) =>
       /\ \A name \in {"m_feedbackTexturesByName", "m_feedbackTexturesByFeedback",
                       "m_feedbackTexturesBySource"} :
             \A k \in DOMAIN m_feedbackTextureMaps[name] :
                m_feedbackTextureMaps[name][k].m_feedbackTexture # NoTexture
       /\ \A t \in SceneTextures(m_scene) :
             \/ t \in textureCreated
             \/ HasWrapper(m_feedbackTextureMaps.m_feedbackTexturesBySource, t)
       /\ LET failed == FailedTextures(m_feedbackTextureMaps) IN
          /\ TexturesOf(m_requestedTiles) \cap failed = {}
          /\ TexturesOf(Flatten(updatedTextures)) \cap failed = {}
          /\ TexturesOf(Flatten(tilesThisFrame)) \cap failed = {}

CeilDiv(a, b) == (a + b - 1) \div b

RECURSIVE SumTiles(_)
SumTiles(levels) ==
    IF levels = <<>> THEN 0
    ELSE Head(levels).widthInTiles * Head(levels).heightInTiles + SumTiles(Tail(levels))

\* The tile indices of the packed-mip tail of a texture: the
\* packedTilesNum indices after the tiles of its regular mips.
PackedTail(t) ==
    LET regular == SumTiles(TiledTextureDesc(t).tiledLevelDescs) IN
    regular .. (regular + TiledTextureDesc(t).packedTilesNum - 1)

PackedTails == [t \in TilingTextures |-> PackedTail(t)]

InPackedTail(r) == r.tileIndex \in PackedTails[r.texture]

\* The tiling of the full-size textures: mip 0 has ceil(W/tw) * ceil(H/th)
\* tiles, 1024 for 2048 x 2048 texels in tiles of 64 x 64; the packed tail
\* is not empty; IsTilePacked is true of the indices of the tail and of no
\* other index of the texture.
TilesClassified ==
    /\ \A t \in TilingTextures :
          LET d == TiledTextureDesc(t) IN
          /\ d.tiledLevelDescs[1].widthInTiles * d.tiledLevelDescs[1].heightInTiles
                = CeilDiv(d.textureWidth, d.tileWidth) * CeilDiv(d.textureHeight, d.tileHeight)
          /\ d.packedTilesNum > 0
          /\ PackedTails[t] # {}
          /\ PackedTails[t] \subseteq TileIndices(t)
          /\ \A i \in TileIndices(t) : IsTilePacked(t, i) <=> i \in PackedTails[t]
    /\ TiledTextureDesc(12).tiledLevelDescs[1].widthInTiles
          * TiledTextureDesc(12).tiledLevelDescs[1].heightInTiles = 1024

RECURSIVE SumFrom(_, _)
\* The samples added to sum one after the other, oldest first, as doubles.
SumFrom(sum, samples) ==
    IF samples = <<>> THEN sum
    ELSE SumFrom(DoubleAdd(sum, Head(samples)), Tail(samples))

\* The sum of a sequence of samples, summed as doubles from 0.0.
SumOfSamples(samples) == SumFrom(0, samples)

\* The last n of the samples that were added.
MostRecent(n) ==
    SubSeq(addedSamples, Len(addedSamples) - n + 1, Len(addedSamples))

\* At most m_maxNumSamples samples are retained and they are the most
\* recent ones.
WindowRetained ==
    /\ Len(m_samples) <= m_maxNumSamples
    /\ Len(m_samples) <= Len(addedSamples)
    /\ m_samples = MostRecent(Len(m_samples))

\* GetMax returns the maximum of the retained samples, 0 when there is none.
MaxOfRetained == GetMax = MaxOfSamples(m_samples)

\* C35: after any sequence of AddSample and SetMaxNumSamples calls, at most
\* maxNumSamples samples are retained and they are the most recent ones, the
\* running sum equals the sum of the retained samples, and GetMax returns
\* the maximum of the retained samples (0 when none is retained).
C35_SlidingWindow ==
    /\ WindowRetained
    /\ m_sum = SumOfSamples(m_samples)
    /\ MaxOfRetained

(***************************************************************************)
(* C33: the three lookups after EnsureFeedbackTextures                     *)
(***************************************************************************)

\* The wrappers a lookup references.
WrappersOf(map) == {map[k] : k \in DOMAIN map}

\* C33: after EnsureFeedbackTextures the lookups by name, by feedback
\* texture and by source texture have the same number of entries and
\* reference the same set of wrappers, one wrapper per tiled source texture,
\* each holding a feedback texture that is not null.
C33_LookupsInSync ==
    (sceneLoaded /\ ~m_recreateFeedbackTextures) =>
       LET byName == m_feedbackTextureMaps.m_feedbackTexturesByName
           byFeedback == m_feedbackTextureMaps.m_feedbackTexturesByFeedback
           bySource == m_feedbackTextureMaps.m_feedbackTexturesBySource
           tiled == {t \in SceneTextures(m_scene) : UseTiledTexture(t)} IN
       /\ Cardinality(DOMAIN byName) = Cardinality(DOMAIN bySource)
       /\ Cardinality(DOMAIN byFeedback) = Cardinality(DOMAIN bySource)
       /\ WrappersOf(byName) = WrappersOf(bySource)
       /\ WrappersOf(byFeedback) = WrappersOf(bySource)
       /\ DOMAIN bySource = tiled
       /\ \A t \in tiled : bySource[t].m_sourceTexture = t
       /\ Cardinality(WrappersOf(bySource)) = Cardinality(tiled)
       /\ \A w \in WrappersOf(bySource) : w.m_feedbackTexture # NoTexture

(***************************************************************************)
(* C32: no request outlives its texture                                    *)
(***************************************************************************)

\* The feedback textures the wrappers of the lookups hold a reference to.
LiveFeedbackTextures ==
    {m_feedbackTextureMaps.m_feedbackTexturesBySource[k].m_feedbackTexture :
        k \in DOMAIN m_feedbackTextureMaps.m_feedbackTexturesBySource} \ {NoTexture}

\* The textures the queue and the tiles scheduled in this frame point to.
RequestedTextures ==
    TexturesOf(m_requestedTiles) \cup {tilesThisFrame[k].texture : k \in 1 .. Len(tilesThisFrame)}

\* Every texture a request points to is alive and is a key of
\* m_feedbackTexturesByFeedback, whose wrapper holds it.
NoDanglingRequest ==
    \A t \in RequestedTextures :
       /\ t \in LiveFeedbackTextures
       /\ t \in DOMAIN m_feedbackTextureMaps.m_feedbackTexturesByFeedback
       /\ m_feedbackTextureMaps.m_feedbackTexturesByFeedback[t].m_feedbackTexture = t

\* EnsureFeedbackTextures clears the lookups in a step that resets
\* m_recreateFeedbackTextures, with the queue empty; SceneUnloading clears
\* them and leaves the queue empty.
QueueEmptyWhenCleared ==
    /\ (m_recreateFeedbackTextures /\ ~m_recreateFeedbackTextures') => m_requestedTiles = <<>>
    /\ (sceneLoaded /\ ~sceneLoaded') =>
          /\ m_feedbackTextureMaps' = EmptyMaps
          /\ m_requestedTiles' = <<>>
    /\ (\E k \in DOMAIN m_feedbackTextureMaps.m_feedbackTexturesByFeedback :
           k \notin DOMAIN m_feedbackTextureMaps'.m_feedbackTexturesByFeedback)
          => m_requestedTiles' = <<>>

\* C32: in every reachable state every texture referenced by a request in
\* m_requestedTiles or by a tile scheduled in the current frame is alive and
\* has an entry in m_feedbackTexturesByFeedback, so that the lookup of the
\* upload phase finds its wrapper; and whenever the feedback textures are
\* released or the lookups cleared, the request queue is empty.
C32_NoDanglingRequest == []NoDanglingRequest /\ [][QueueEmptyWhenCleared]_vars

\* The upload phase has looked up the wrappers of the tiles of a frame that
\* is not the first, while a request is left in the queue.
C32_Witness ==
    /\ pc = "Uploaded"
    /\ frameIndex > 0
    /\ tilesThisFrame # <<>>
    /\ m_requestedTiles # <<>>

(***************************************************************************)
(* C34: the order of teardown                                              *)
(***************************************************************************)

\* No statement of a handler leaves the application without a manager
\* while something still refers to a feedback texture or a texture set.
TeardownInOrder(statements) ==
    \A i \in 1 .. Len(statements) :
       ~statements[i].m_feedbackManager =>
          ReferencedTextures(statements[i].m_feedbackTextureMaps) = {}

\* The members are what the statements of the handler leave.
LeavesMembers(statements) ==
    /\ m_feedbackTextureMaps' = AfterStatements(statements).m_feedbackTextureMaps
    /\ m_requestedTiles' = AfterStatements(statements).m_requestedTiles
    /\ m_feedbackManager' = AfterStatements(statements).m_feedbackManager

\* The calls into the manager that a step records.
ManagerCallsOf(log) ==
    {log[k] : k \in 1 .. Len(log)}
       \cap {"BeginFrame", "UpdateTileMappings", "ResolveFeedback"}

\* While no manager exists nothing refers to a feedback texture, so none is
\* alive to be destroyed later, and no frame is in progress.
NothingOutlivesManager ==
    ~m_feedbackManager =>
       /\ ReferencedTextures(m_feedbackTextureMaps) = {}
       /\ pc \in {"Idle", "Exited"}
       /\ cmdLog = <<>>

\* A scene unload and the end of the application drop all references
\* before they release the manager; a scene load creates a manager only
\* when there is none, so that it releases none that still has textures;
\* and a step that records a call into the manager is taken with a manager.
TeardownSteps ==
    /\ (pc = "Idle" /\ pc' = "Idle" /\ sceneLoaded /\ ~sceneLoaded') =>
          LET statements == SceneUnloadingStatements(m_feedbackTextureMaps,
                                                     m_requestedTiles) IN
          LeavesMembers(statements) /\ TeardownInOrder(statements)
    /\ (pc' = "Exited" /\ pc # "Exited") =>
          LET statements == DestructorStatements(m_feedbackTextureMaps,
                               m_requestedTiles, m_feedbackManager) IN
          LeavesMembers(statements) /\ TeardownInOrder(statements)
    /\ (~sceneLoaded /\ sceneLoaded') =>
          /\ ReferencedTextures(m_feedbackTextureMaps) = {}
          /\ m_feedbackManager'
    /\ (cmdLog' # cmdLog /\ ManagerCallsOf(cmdLog') # {}) =>
          m_feedbackManager /\ m_feedbackManager'

\* C34: every FeedbackTexture is destroyed, and thereby unregistered, while
\* the FeedbackManager that created it still exists: in every scene unload
\* and at the end of the application all references to feedback textures
\* and texture sets are dropped before the manager is released, and
\* BeginFrame, UpdateTileMappings and ResolveFeedback are never called while
\* no manager exists.
C34_TeardownOrder == []NothingOutlivesManager /\ [][TeardownSteps]_vars

\* The application has ended with a scene loaded whose feedback textures and
\* texture sets were built and used by a frame.
C34_Witness ==
    /\ pc = "Exited"
    /\ frameIndex > 0
    /\ ~m_recreateFeedbackTextures
    /\ passesCreated
    /\ ~m_feedbackManager

(***************************************************************************)
(* C31: the request queue drains                                           *)
(***************************************************************************)

\* The regular tiles a request may name.
RegularRequests ==
    {r \in {ReqTile(t, i) : t \in Textures, i \in 0 .. 2} :
        r.tileIndex \in TileIndices(r.texture) /\ ~IsPackedReq(r)}

InQueue(r) == \E k \in 1 .. Len(m_requestedTiles) : m_requestedTiles[k] = r

\* The tile is among those scheduled for mapping and upload in this frame.
ScheduledThisFrame(r) ==
    \E k \in 1 .. Len(tilesThisFrame) :
       /\ tilesThisFrame[k].texture = r.texture
       /\ \E j \in 1 .. Len(tilesThisFrame[k].tileIndices) :
             tilesThisFrame[k].tileIndices[j] = r.tileIndex

\* A step leaves the requests of the queue in place and may append to
\* them, or takes some from the front, all of which are scheduled in this
\* frame, or is a scene unload that clears the queue.
LeavesOnlyFromFront ==
    LET old == m_requestedTiles
        new == m_requestedTiles' IN
    \/ Len(new) >= Len(old) /\ SubSeq(new, 1, Len(old)) = old
    \/ /\ pc = "Begun" /\ pc' = "Scheduled"
       /\ \E n \in 1 .. Len(old) :
             /\ new = SubSeq(old, n + 1, Len(old))
             /\ \A k \in 1 .. n :
                   \E e \in 1 .. Len(tilesThisFrame') :
                      /\ tilesThisFrame'[e].texture = old[k].texture
                      /\ \E j \in 1 .. Len(tilesThisFrame'[e].tileIndices) :
                            tilesThisFrame'[e].tileIndices[j] = old[k].tileIndex
    \/ sceneLoaded /\ ~sceneLoaded' /\ new = <<>>

\* A request in the queue is scheduled after finitely many frames, unless
\* the scene is unloaded or the tiles a frame may upload fall below 1.
QueueDrains ==
    \A r \in RegularRequests :
       (sceneLoaded /\ InQueue(r))
          ~> (ScheduledThisFrame(r) \/ ~sceneLoaded
                \/ Min(tilesPerFrame, m_maxTiles) < 1)

\* C31: while a scene stays loaded and min(tilesPerFrame, staging capacity)
\* is at least 1, every regular tile request placed in m_requestedTiles is
\* scheduled for upload after finitely many frames, even when new requests
\* keep arriving; a request leaves the queue only by being scheduled from
\* the front or by the clear of the whole queue at scene unload.
C31_QueueDrains == [][LeavesOnlyFromFront]_vars /\ QueueDrains

\* A frame has scheduled the front of the queue and left a request in it
\* that arrived in this frame, behind one left over from the frame before.
C31_Witness ==
    /\ pc = "Scheduled"
    /\ tilesPerFrame = 1
    /\ countUpload = 1
    /\ Len(m_requestedTiles) >= 2

====
